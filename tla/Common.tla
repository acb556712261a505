------------------------------- MODULE Common -------------------------------
(***************************************************************************)
(* The definitions every part of kasm shares: the memory map, the fields   *)
(* of an instruction word, and the kinds of address an operand is.         *)
(*                                                                         *)
(* A word is abstracted to its address field and everything else in it.    *)
(* The literal bits (opcode, registers, immediate, or the whole value of a *)
(* literal) are one element of Instr: nothing here computes with them.     *)
(* The address field is a number, because linking is about what number it  *)
(* holds.  The code builds words in uninitialised unions, so a field that  *)
(* has not been resolved holds whatever was there: Junk.                   *)
(***************************************************************************)
EXTENDS Integers, Sequences

CONSTANTS
  DATA_SEGMENT_OFFSET,     \* first address of the data segment (0x10010000)
  DIRECT_ABSOLUTE_RANGE,   \* 2^DIRECT_ADDRESS_ABSOLUTE_BIT, 26 bits
  DIRECT_OFFSET_RANGE,     \* 2^DIRECT_ADDRESS_OFFSET_BIT, 16 bits
  IMMEDIATE_RANGE,         \* 2^IMMEDIATE_BIT, 16 bits
  Instr,                   \* the literal bits of words
  ZeroInstr                \* the literal bits of a zero byte

INSTRUCTION_SIZE == 4

ASSUME OffsetAssumption ==
  /\ DATA_SEGMENT_OFFSET \in Nat \ {0}
  /\ DATA_SEGMENT_OFFSET % INSTRUCTION_SIZE = 0

ASSUME RangeAssumption ==
  /\ DIRECT_ABSOLUTE_RANGE \in Nat \ {0}
  /\ DIRECT_OFFSET_RANGE \in Nat \ {0}
  /\ IMMEDIATE_RANGE \in Nat \ {0}

ASSUME InstrAssumption == ZeroInstr \in Instr

-----------------------------------------------------------------------------
Junk == -1       \* an address field nobody has written
NoField == -2    \* a word that has no address field

Word == [instr : Instr, field : Nat \cup {Junk, NoField}]

\* A byte of a segment: byte i of a word, the low byte first.
Byte == Word \X (0 .. INSTRUCTION_SIZE - 1)

ZeroByte == <<[instr |-> ZeroInstr, field |-> NoField], 0>>

\* What writing a std::uint32_t to a stream writes.
WordBytes(word) == [i \in 1 .. INSTRUCTION_SIZE |-> <<word, i - 1>>]

-----------------------------------------------------------------------------
(***************************************************************************)
(* AddressType.  DirectAddressAbsoluteLoad is the operand of la, which     *)
(* takes two words; Literal and LiteralByte stand for the operands that    *)
(* are no address and are written as they are.                             *)
(***************************************************************************)
AddressType ==
  { "DirectAddressAbsolute", "DirectAddressOffset", "IndirectAddressOffset",
    "DirectAddressAbsoluteWord", "DirectAddressAbsoluteByte",
    "DirectAddressAbsoluteLoad" }

=============================================================================
