-------------------------- MODULE MCVirtualMachine --------------------------
(***************************************************************************)
(* Programs for the virtual machine: recursion through the procedure       *)
(* pseudoinstructions, the comparing branches, every other instruction,    *)
(* every system call.                                                      *)
(*                                                                         *)
(* Word 64 * p + i is the i-th instruction of program p.                   *)
(***************************************************************************)
EXTENDS VirtualMachine

R == {"zero", "at", "v0", "a0", "a1", "a2", "t0", "gp", "sp", "fp", "ra"}

\* Instructions by the shape of their operands.
I(opcode, r0, r1, r2, immediate, absolute) ==
  [opcode |-> opcode, register0 |-> r0, register1 |-> r1, register2 |-> r2,
   immediate |-> immediate % HALF_RANGE, absolute |-> absolute]
RRR(opcode, r0, r1, r2) == I(opcode, r0, r1, r2, 0, 0)
RRL(opcode, r0, r1, i)  == I(opcode, r0, r1, "zero", i, 0)
RR(opcode, r0, r1)      == I(opcode, r0, r1, "zero", 0, 0)
A(opcode, address)      == I(opcode, "zero", "zero", "zero", 0, address)
Li(r, i)                == RRL("ORI", r, "zero", i)
Sys                     == A("SYS", 0)

\* A load or store at position of what the register r1 points to: as the
\* assembler stores it, less the position.
At(opcode, r0, r1, position) == RRL(opcode, r0, r1, -position)

\* n % 4, read from the input; f calls itself so deep, with a word pushed and
\* not popped in each frame.
Recursion == <<
  Li("v0", 1), Sys, RRL("ANDI", "a0", "a0", 3), A("JAL", 24), Li("v0", 0), Sys,
  \* f: enter
  RRL("ADDI", "sp", "sp", -4), At("SW", "ra", "sp", 28),
  RRL("ADDI", "sp", "sp", -4), At("SW", "fp", "sp", 36),
  RRR("OR", "fp", "sp", "zero"),
  \* pushw $a0; beq $a0, $zero, done; add $a0, $a0, -1; call f
  RRL("ADDI", "sp", "sp", -4), At("SW", "a0", "sp", 48),
  RRL("BEQ", "a0", "zero", 12), RRL("ADDI", "a0", "a0", -1), A("JAL", 24),
  \* done: ret
  RRR("OR", "sp", "fp", "zero"), At("LW", "fp", "sp", 68),
  RRL("ADDI", "sp", "sp", 4), At("LW", "ra", "sp", 76),
  RRL("ADDI", "sp", "sp", 4), RR("JR", "ra", "zero") >>

\* Reads $t0 and $a1, compares them, branches: exit code 1 if it branched.
Compare(first, second, branch) == <<
  Li("v0", 1), Sys, RRR("OR", "t0", "a0", "zero"), Sys, RRR("OR", "a1", "a0", "zero"),
  RRR("SLT", "at", first, second), RRL(branch, "at", "zero", 16),
  Li("a0", 0), Li("v0", 0), Sys,
  Li("a0", 1), Li("v0", 0), Sys >>

Comparisons == <<
  Compare("a1", "t0", "BNE"),    \* bgt $t0, $a1
  Compare("t0", "a1", "BNE"),    \* blt
  Compare("t0", "a1", "BEQ"),    \* bge
  Compare("a1", "t0", "BEQ") >>  \* ble

Related(k, s, t) == CASE k = 1 -> s > t [] k = 2 -> s < t [] k = 3 -> s >= t [] k = 4 -> s <= t

\* Every instruction that the programs above do not use.
Remaining == <<
  RRL("LUI", "t0", "zero", 255), RRL("ADDIU", "a0", "t0", 200), RRL("ADDI", "a0", "a0", 100),
  RRR("ADD", "a1", "a0", "t0"), RRR("SUB", "a2", "zero", "t0"), RRR("AND", "a1", "a1", "t0"),
  RRL("ANDI", "a1", "a1", 15), RRR("NOR", "a1", "a1", "t0"), RRR("XOR", "a1", "a1", "t0"),
  RRL("XORI", "a1", "a1", 3), RRR("SEQ", "a2", "a1", "t0"), RRR("SNE", "a2", "a1", "t0"),
  RRL("SLL", "a1", "t0", 5), RRR("SLLV", "a1", "t0", "gp"), RRL("SRL", "a1", "t0", 3),
  RRR("SRLV", "a1", "t0", "a2"), RRL("SRA", "a1", "t0", 3), RRL("SLTI", "a2", "a1", 9),
  Li("a1", 200), Li("a2", 7), RR("MULT", "a1", "a2"), RR("DIV", "a1", "a2"),
  RR("MFHI", "a1", "zero"), RR("MFLO", "a2", "zero"),
  At("SB", "a1", "gp", 96), At("LB", "a2", "gp", 100),
  RRL("BGTZ", "a2", "zero", 4), RRL("BLEZ", "zero", "zero", 4), RRL("BGEZ", "a2", "zero", 4),
  RRL("BLTZ", "t0", "zero", 8), RRL("BLTZAL", "t0", "zero", 8), A("SYS", 0),
  RRL("BGEZAL", "zero", "zero", 8), A("SYS", 0),
  Li("a1", 148), RR("JALR", "a1", "ra"), A("SYS", 0), A("J", 152),
  RR("DIVU", "a1", "zero") >>

\* Any service, on any arguments: $v0, $a0 and $a1 are read; then close it, if
\* that opened a file, twice.
Services == <<
  Li("v0", 1), Sys, RRR("OR", "a1", "a0", "zero"), Sys, RRR("OR", "a2", "a0", "zero"), Sys,
  RRR("OR", "v0", "a0", "zero"), RRR("OR", "a0", "a2", "zero"), Sys,
  RRR("OR", "a0", "v0", "zero"), Li("v0", 11), Sys, Li("v0", 10), Sys, Sys >>

\* A register is loaded from where no region is.
Wild == <<At("LW", "t0", "sp", 0)>>

\* A jump to the last byte of a text without data behind it.
OffTheEnd == <<A("J", 5), A("J", 0)>>

AllPrograms == <<Recursion>> \o Comparisons \o <<Remaining, Services, Wild, OffTheEnd>>

TextOf(p) == [i \in 1 .. Len(AllPrograms[p]) |-> 64 * p + i]

ProgramFile(p) == [text |-> TextOf(p), data |-> IF p = Len(AllPrograms) THEN <<>> ELSE <<p, 0, 0, 0>>]

\* A definition of its own, which TLC evaluates once.
Instructions ==
  [word \in UNION { {TextOf(p)[i] : i \in 1 .. Len(AllPrograms[p])} : p \in 1 .. Len(AllPrograms) } |->
     AllPrograms[word \div 64][word % 64]]

MCDecode == Instructions
MCPrograms == {ProgramFile(p) : p \in 1 .. Len(AllPrograms)}
MCInputWords == (0 .. 12) \cup {25, 32768}
MCLines == {<<>>, <<1, 2>>, <<1, 2, 3, 4>>}

-----------------------------------------------------------------------------
\* The pseudoinstructions bgt, blt, bge and ble branch when their operands,
\* as unsigned numbers, are so related: each is a slt, its operands in one
\* order or the other, and a beq or bne.
ComparisonsBranch ==
  LET p == memory[<<"image", textSegmentLength>>]
  IN  shouldExit /\ p \in 2 .. 5 =>
        (exitCode = 1 <=> Related(p - 1, registers["t0"], registers["a1"]))

=============================================================================
