---------------------------- MODULE MCAssembler ----------------------------
(***************************************************************************)
(* Units for the instances of Assembler: every address type, with forward  *)
(* and backward references, operands with offsets, pseudoinstructions of   *)
(* two units.                                                              *)
(***************************************************************************)
EXTENDS Assembler

CONSTANTS x, y

U(type, label, offset) == [type |-> type, instr |-> "a", label |-> label, offset |-> offset]

Plain  == U("Literal", NoLabel, 0)
OneByte == U("LiteralByte", NoLabel, 0)

\* slt $at, $s, $t; bne $at, $zero, x
BranchGreater == <<Plain, U("DirectAddressOffset", x, 0)>>
Jump(l)       == <<U("DirectAddressAbsolute", l, 0)>>
LoadAddress   == <<U("DirectAddressAbsoluteLoad", x, 0)>>
LoadWord      == <<U("IndirectAddressOffset", y, 4)>>
PopWord       == <<U("IndirectAddressOffset", NoLabel, 8), Plain>>

\* Text and data, references both ways.
MixedWordLists    == {<<U("DirectAddressAbsoluteWord", x, 0), Plain>>}
MixedByteLists    == {<<OneByte, U("DirectAddressAbsoluteByte", y, 0)>>}

\* Every kind of operand, near enough to its target and too far from it.
OperandInstructions == {BranchGreater, Jump(y), LoadAddress, LoadWord, PopWord,
                        <<U("DirectAddressAbsolute", NoLabel, 0)>>}

\* A load of a data label, a jump past a label.
LoadOnly  == { <<U("IndirectAddressOffset", x, 0)>> }
JumpPast  == { <<U("DirectAddressAbsolute", x, 4)>> }
PlainWord == { <<Plain>> }
PlainByte == { <<OneByte>> }

NoLists == {}

=============================================================================
