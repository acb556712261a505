---------------------------- MODULE ImageBuilder ----------------------------
(***************************************************************************)
(* A client calling the member functions of one BinaryBuilder in any order *)
(* its contract allows.  The contract is what the assembler asserts before *)
(* a data directive ("... must be in data segment") and what its patch     *)
(* loop does: bytes, padding and alignment only while the cursor is in the *)
(* data segment, and a location in the text segment only if it has been    *)
(* written.  Under it the builder implements SegmentedImage.               *)
(***************************************************************************)
EXTENDS BinaryBuilder

CONSTANTS
  Words, Strings, Alignments,
  Sizes,          \* the sizes a client pads by
  MaxTextLength,  \* bound: bytes of text
  MaxDataLength   \* bound: bytes of data

ASSUME ClientAssumption ==
  /\ Words \subseteq Word
  /\ Strings \subseteq Seq(Byte)
  /\ Alignments \subseteq Nat \ {0}
  /\ Sizes \subseteq Nat
  /\ MaxTextLength \in Nat
  /\ MaxDataLength \in Nat
  /\ MaxTextLength < DATA_SEGMENT_OFFSET

VARIABLE binary

Init == binary = Open

InData == GetSegmentType(binary) = "DATA"

\* Programs that stay inside their segments' address ranges.
Room(bytes) ==
  IF InData THEN binary.cursor + bytes <= DATA_SEGMENT_OFFSET + MaxDataLength
            ELSE binary.cursor + bytes <= MaxTextLength

DoWriteWord(w) ==
  /\ Room(INSTRUCTION_SIZE)
  /\ binary' = WriteWord(binary, WordBytes(w))

DoWriteData(s) ==
  /\ InData /\ Room(Len(s))
  /\ binary' = WriteData(binary, s)

DoPad(size) ==
  /\ InData /\ Room(size)
  /\ binary' = Pad(binary, size)

DoAlign(alignment) ==
  /\ InData /\ Room(alignment)
  /\ binary' = Align(binary, alignment)

\* A text location that has been written or is the end, any data location.
DoSetLocation(location) ==
  /\ location < DATA_SEGMENT_OFFSET => location <= Len(binary.text.buf)
  /\ binary' = SetLocation(binary, location)

DoSetLocationEnd == binary' = SetLocationEnd(binary)

DoSetSegmentType(segment) == binary' = SetSegmentType(binary, segment)

Next ==
  \/ \E w \in Words : DoWriteWord(w)
  \/ \E s \in Strings : DoWriteData(s)
  \/ \E n \in Sizes : DoPad(n)
  \/ \E n \in Alignments : DoAlign(n)
  \/ \E location \in 0 .. MaxTextLength
                       \cup DATA_SEGMENT_OFFSET .. (DATA_SEGMENT_OFFSET + MaxDataLength) :
        DoSetLocation(location)
  \/ DoSetLocationEnd
  \/ \E segment \in {"TEXT", "DATA"} : DoSetSegmentType(segment)

Spec == Init /\ [][Next]_binary

-----------------------------------------------------------------------------
TypeOK == binary \in Builder

\* Whatever sequence of calls came before, the put position of the current
\* stream is where the cursor says the next byte goes: the two are updated
\* by different statements of every function (binaryBuilder.cpp).
CursorInSync == CursorSync(binary)

Image == INSTANCE SegmentedImage
           WITH cursor <- binary.cursor,
                memory <- [a \in Written(binary) |-> ByteAt(binary, a)]

\* align() reaches the next multiple of the alignment and no further (README:
\* "Align the cursor to the nearest 2^X address").
AlignIsExact ==
  [][ \A n \in Alignments : DoAlign(n) =>
        /\ binary'.cursor % n = 0
        /\ binary'.cursor \in binary.cursor .. (binary.cursor + n - 1) ]_binary

\* The builder implements the segmented memory: a write changes exactly the
\* bytes at the cursor, a seek changes none, a gap is filled with zeros.
ImplementsImage == Image!Spec

=============================================================================
