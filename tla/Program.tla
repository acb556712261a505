------------------------------ MODULE Program ------------------------------
(***************************************************************************)
(* How the virtual machine reads a program file: VirtualMachine::Program   *)
(* loads text and data into one vector and maps addresses onto it, and     *)
(* VirtualMachine::resolveAddress turns the address field of an            *)
(* instruction into an address.  This is the reader the assembler writes   *)
(* for: the two share no code but the header of common.hpp.                *)
(***************************************************************************)
EXTENDS Common

\* Program::open: the header's two lengths, then text and data in one vector.
Memory(file) == file.text \o file.data

\* Program::operator[] and getWord, for addresses below STACK_OFFSET.
IndexOf(file, address) ==
  IF address < DATA_SEGMENT_OFFSET
  THEN address
  ELSE address - DATA_SEGMENT_OFFSET + Len(file.text)

ByteOf(file, address) == Memory(file)[IndexOf(file, address) + 1]

WordOf(file, address) ==
  [i \in 1 .. INSTRUCTION_SIZE |-> Memory(file)[IndexOf(file, address) + i]]

\* directAddressOffset is a signed bit field.
SignExtend(field) ==
  IF field >= DIRECT_OFFSET_RANGE \div 2 THEN field - DIRECT_OFFSET_RANGE ELSE field

\* The effective address of an instruction at pc whose base register holds
\* register (nothing here depends on the wrap at 2^32).
EffectiveAddress(type, field, register, pc) ==
  CASE type = "DirectAddressAbsolute" -> field
    [] type = "DirectAddressOffset"   -> SignExtend(field) + pc
    [] type = "IndirectAddressOffset" -> register + SignExtend(field) + pc

=============================================================================
