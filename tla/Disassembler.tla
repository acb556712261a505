---------------------------- MODULE Disassembler ----------------------------
(***************************************************************************)
(* Disassembler::disassemble: the source that lists a program.             *)
(*                                                                         *)
(* A program is the decoded words of its text and the bytes of its data;   *)
(* symbols is the symbol table, a function of locations.  The source is    *)
(* the units the assembler's lexer takes it for, without the blanks that   *)
(* only lay it out.  Listed names are in capitals, as there.               *)
(***************************************************************************)
EXTENDS Integers, Sequences
LOCAL INSTANCE SequencesExt

CONSTANTS
  HexWord(_),           \* the word after the 0 of a number in hexadecimal: x and its digits
  LocationWord(_),      \* "_" and the eight digits of a location
  DATA_SEGMENT_OFFSET, STACK_OFFSET,
  LOCATION_RANGE,       \* the number of values of a std::uint32_t
  BYTE_RANGE            \* and of a byte

ASSUME LocationAssumption ==
  /\ LOCATION_RANGE \in Nat
  /\ 0 < DATA_SEGMENT_OFFSET /\ DATA_SEGMENT_OFFSET < STACK_OFFSET
  /\ STACK_OFFSET < LOCATION_RANGE
  /\ BYTE_RANGE \in Nat /\ LOCATION_RANGE = BYTE_RANGE * BYTE_RANGE * BYTE_RANGE * BYTE_RANGE

ListedBytes == 4    \* INSTRUCTION_SIZE

\* The units of registerNames.  Number 3 has no sign before its name.
Sign == [r \in 0 .. 31 |-> IF r = 3 THEN <<>> ELSE <<"$">>]
NameOfRegister ==
  << "zero", "at", "v0", "v1", "a0", "a1", "a2", "a3", "t0", "t1", "t2", "t3", "t4", "t5", "t6",
     "t7", "s0", "s1", "s2", "s3", "s4", "s5", "s6", "s7", "t8", "t9", "k0", "k1", "gp", "sp",
     "fp", "ra" >>
ListedRegister(r) == Sign[r] \o <<NameOfRegister[r + 1]>>

-----------------------------------------------------------------------------
(***************************************************************************)
(* instructionFormats: which fields of an instruction are listed.  They    *)
(* are listed in the order of the flags, wherever the assembler wants      *)
(* them.                                                                   *)
(***************************************************************************)

FormatOf == [
  RRR   |-> {"ADD", "ADDU", "AND", "OR", "SLLV", "SRLV", "SUB", "SUBU", "XOR", "NOR"},
  RRI   |-> {"ADDI", "ADDIU", "ANDI", "ORI", "SLL", "SLT", "SLTI", "SLTIU", "SLTU", "SNE", "SEQ",
             "SRA", "SRL", "XORI"},
  RRDAO |-> {"BEQ", "BGEZ", "BGEZAL", "BGTZ", "BLEZ", "BLTZ", "BLTZAL", "BNE"},
  RR    |-> {"DIV", "DIVU", "MULT", "MULTU", "JALR"},
  RI    |-> {"LUI"},
  RIDA  |-> {"LB", "LW", "SB", "SW"},
  R0    |-> {"JR", "MFHI", "MFLO"},
  DAA   |-> {"J", "JAL"},
  NONE  |-> {"SYS"} ]
OpcodesListed == UNION {FormatOf[f] : f \in DOMAIN FormatOf}
Listed(opcode, formats) == \E f \in formats : opcode \in FormatOf[f]

ListsR0(opcode) == ~Listed(opcode, {"DAA", "NONE"})
ListsR1(opcode) == Listed(opcode, {"RRR", "RRI", "RRDAO", "RR"})

-----------------------------------------------------------------------------
\* getLabelFromAddress
getLabelFromAddress(symbols, location, dataOnly) ==
  IF location \in DOMAIN symbols
     /\ (dataOnly => location \in DATA_SEGMENT_OFFSET .. STACK_OFFSET - 1)
  THEN <<symbols[location]>>
  ELSE IF dataOnly /\ location < DATA_SEGMENT_OFFSET THEN <<"0", HexWord(location)>>
  ELSE <<LocationWord(location)>>

\* Mutant of Target: the distance is taken for the location.
TargetUnmoved(d, pc) == d.directAddressOffset % LOCATION_RANGE

Target(d, pc) == (d.directAddressOffset + pc) % LOCATION_RANGE

\* The operand of a load or a store.  The label of a word and the distance from
\* it are written without a blank between them.
Indirect(symbols, d, pc) ==
  LET location == Target(d, pc)
      offset == location % ListedBytes
  IN  (IF location \in DOMAIN symbols THEN getLabelFromAddress(symbols, location, TRUE)
       ELSE getLabelFromAddress(symbols, location - offset, FALSE)
            \o (IF offset = 0 THEN <<>> ELSE <<"+", <<"1", "2", "3">>[offset]>>))
      \o (IF d.register1 = 0 THEN <<>> ELSE <<"(">> \o ListedRegister(d.register1) \o <<")">>)

Only(condition, units) == IF condition THEN <<units>> ELSE <<>>

OperandsListed(symbols, d, pc) ==
  Only(ListsR0(d.opcode), ListedRegister(d.register0))
  \o Only(ListsR1(d.opcode), ListedRegister(d.register1))
  \o Only(Listed(d.opcode, {"RRR"}), ListedRegister(d.register2))
  \o Only(Listed(d.opcode, {"DAA"}), getLabelFromAddress(symbols, d.directAddressAbsolute, FALSE))
  \o Only(Listed(d.opcode, {"RRDAO"}), getLabelFromAddress(symbols, Target(d, pc), FALSE))
  \o Only(Listed(d.opcode, {"RRI", "RI"}), <<"0", HexWord(d.immediate)>>)
  \o Only(Listed(d.opcode, {"RIDA"}), Indirect(symbols, d, pc))

\* The last comma is overwritten.
Separated(operands) ==
  FlattenSeq([i \in DOMAIN operands |->
                IF i = 1 THEN operands[1] ELSE <<",", " ">> \o operands[i]])

\* A line: its location's label, and the location's own if a symbol is there too.
LineListed(symbols, pc, units) ==
  (IF pc \in DOMAIN symbols THEN <<LocationWord(pc), ":", "\n">> ELSE <<>>)
  \o getLabelFromAddress(symbols, pc, FALSE) \o <<":", " ">> \o units \o <<"\n">>

InstructionListed(symbols, d, pc) ==
  LineListed(symbols, pc, <<d.opcode, " ">> \o Separated(OperandsListed(symbols, d, pc)))

\* A word with a symbol inside is listed as bytes.
WordListed(symbols, word, pc) ==
  LET byte(i) == LineListed(symbols, pc + i, <<".", "BYTE", " ", "0", HexWord(word[i + 1])>>)
      value == word[1] + BYTE_RANGE * (word[2] + BYTE_RANGE * (word[3] + BYTE_RANGE * word[4]))
  IN  IF \E i \in 1 .. ListedBytes - 1 : pc + i \in DOMAIN symbols
      THEN byte(0) \o byte(1) \o byte(2) \o byte(3)
      ELSE LineListed(symbols, pc, <<".", "WORD", " ", "0", HexWord(value)>>)

\* The bytes of the data after its last whole word are not listed.
disassemble(text, data, symbols) ==
  LET words == Len(data) \div ListedBytes
      Location(i) == DATA_SEGMENT_OFFSET + ListedBytes * (i - 1)
      Bytes(i) == SubSeq(data, ListedBytes * (i - 1) + 1, ListedBytes * i)
  IN  (IF text = <<>> THEN <<>> ELSE <<".", "TEXT", "\n">>)
      \o FlattenSeq([i \in DOMAIN text |->
                         InstructionListed(symbols, text[i], ListedBytes * (i - 1))])
      \o (IF data = <<>> THEN <<>> ELSE <<".", "DATA", "\n">>)
      \o FlattenSeq([i \in 1 .. words |-> WordListed(symbols, Bytes(i), Location(i))])

=============================================================================
