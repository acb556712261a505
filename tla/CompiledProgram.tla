--------------------------- MODULE CompiledProgram ---------------------------
(***************************************************************************)
(* A program in klang from its syntax tree to its exit code: the lines the *)
(* compiler writes, the words the assembler makes of them, and the virtual *)
(* machine that executes them.                                             *)
(*                                                                         *)
(* The assembler is the part of it that compiled programs use, as one      *)
(* function; Assembler models it step by step.  An instruction is encoded  *)
(* as the word that Decode gives it.                                       *)
(***************************************************************************)
EXTENDS VirtualMachine, Compiler
LOCAL INSTANCE SequencesExt

CONSTANTS
  Sources,        \* syntax trees
  Meaning(_),     \* what a syntax tree should exit with; outside WordValue: no claim
  Encode(_)       \* the word of an instruction

ASSUME EncodeAssumption == \A word \in DOMAIN Decode : Encode(Decode[word]) = word

VARIABLE source

sourceVars == <<machineVars, source>>

-----------------------------------------------------------------------------
(***************************************************************************)
(* The instructions of a line.  kind says what the operand n or label      *)
(* stands for in the instruction.                                          *)
(***************************************************************************)

Template(opcode, r0, r1, r2, kind, n, label) ==
  [opcode |-> opcode, register0 |-> r0, register1 |-> r1, register2 |-> r2, kind |-> kind,
   n |-> n, label |-> label]
RRR(opcode, r0, r1, r2)       == Template(opcode, r0, r1, r2, "none", 0, "")
RRL(opcode, r0, r1, n)        == Template(opcode, r0, r1, "zero", "immediate", n, "")
RRO(opcode, r0, r1, label)    == Template(opcode, r0, r1, "zero", "offset", 0, label)
Memory(opcode, r0, r1, n)     == Template(opcode, r0, r1, "zero", "indirect", n, "")

ThreeRegisters == [add |-> "ADD", and |-> "AND", or |-> "OR", seq |-> "SEQ", sne |-> "SNE",
                   slt |-> "SLT", sub |-> "SUB"]
Immediate      == [addi |-> "ADDI", xori |-> "XORI"]
Transfer       == [lw |-> "LW", sw |-> "SW"]

PushWord(r) == <<RRL("ADDI", "sp", "sp", -INSTRUCTION_SIZE), Memory("SW", r, "sp", 0)>>
PopWord(r)  == <<Memory("LW", r, "sp", 0), RRL("ADDI", "sp", "sp", INSTRUCTION_SIZE)>>

\* Mutant of Return: the registers are taken back in the order they were saved.
ReturnSwapped ==
  <<RRR("OR", "sp", "fp", "zero")>> \o PopWord("ra") \o PopWord("fp")
  \o <<RRR("JR", "ra", "zero", "zero")>>

Return ==
  <<RRR("OR", "sp", "fp", "zero")>> \o PopWord("fp") \o PopWord("ra")
  \o <<RRR("JR", "ra", "zero", "zero")>>

Expansion(line) ==
  LET r == line.registers
      op == line.op
  IN  CASE op \in DOMAIN ThreeRegisters -> <<RRR(ThreeRegisters[op], r[1], r[2], r[3])>>
        [] op \in DOMAIN Immediate      -> <<RRL(Immediate[op], r[1], r[2], line.n)>>
        [] op \in DOMAIN Transfer       -> <<Memory(Transfer[op], r[1], r[2], line.n)>>
        [] op = "sys"   -> <<RRR("SYS", "zero", "zero", "zero")>>
        [] op = "copy"  -> <<RRR("OR", r[1], r[2], "zero")>>
        [] op = "rem"   -> <<RRR("DIV", r[2], r[3], "zero"), RRR("MFHI", r[1], "zero", "zero")>>
        [] op = "b"     -> <<RRO("BEQ", "zero", "zero", line.label)>>
        [] op = "beqz"  -> <<RRO("BEQ", r[1], "zero", line.label)>>
        [] op = "bne"   -> <<RRO("BNE", r[1], r[2], line.label)>>
        [] op = "call"  -> <<Template("JAL", "zero", "zero", "zero", "absolute", 0, line.label)>>
        [] op = "enter" -> PushWord("ra") \o PushWord("fp") \o <<RRR("OR", "fp", "sp", "zero")>>
        [] op = "ret"   -> Return
        [] op = "la"    -> <<Template("LUI", r[1], "zero", "zero", "high", 0, line.label),
                             Template("ORI", r[1], r[1], "zero", "low", 0, line.label)>>
        [] op = "li"    -> LET high == line.n \div HALF_RANGE
                               low == line.n % HALF_RANGE
                           IN  IF high = 0 THEN <<RRL("ORI", r[1], "zero", low)>>
                               ELSE <<RRL("LUI", r[1], "zero", high),
                                      RRL("ORI", r[1], r[1], low)>>
        [] OTHER        -> <<>>

\* A literal is read by std::stoi, as a signed number.
IsStatement(line) ==
  /\ Expansion(line) # <<>>
  /\ line.op = "li" => line.n < WORD_RANGE \div 2

-----------------------------------------------------------------------------
(***************************************************************************)
(* The assembly: text and data grow, labels name where they have come to,  *)
(* and the labels that instructions name are resolved.  ok says that       *)
(* nothing was thrown.                                                     *)
(***************************************************************************)

Fresh == [ok |-> TRUE, inData |-> FALSE, text |-> <<>>, data |-> <<>>, labels |-> <<>>]

Location(a) ==
  IF a.inData THEN DATA_SEGMENT_OFFSET + Len(a.data) ELSE INSTRUCTION_SIZE * Len(a.text)

Assemble(a, line) ==
  CASE line.op = ".data"   -> [a EXCEPT !.inData = TRUE]
    [] line.op = ".text"   -> [a EXCEPT !.inData = FALSE]
    [] line.op = ".space"  -> [a EXCEPT !.data = @ \o [i \in 1 .. line.n |-> 0]]
    [] line.op = ".asciiz" -> [a EXCEPT !.data = @ \o line.n \o <<0>>]
    [] line.op = "label"   -> [a EXCEPT !.ok = @ /\ line.label \notin DOMAIN a.labels,
                                        !.labels = @ @@ (line.label :> Location(a))]
    [] OTHER               -> [a EXCEPT !.ok = @ /\ IsStatement(line),
                                        !.text = @ \o Expansion(line)]

\* The i-th instruction: what resolveAddress puts in the place of its operand.
Resolved(a, i) ==
  LET t == a.text[i]
      position == INSTRUCTION_SIZE * (i - 1)
      there == IF t.label \in DOMAIN a.labels THEN a.labels[t.label] ELSE 0
      field == CASE t.kind \in {"none", "absolute"} -> 0
                 [] t.kind = "immediate"            -> t.n
                 [] t.kind = "indirect"             -> t.n - position
                 [] t.kind = "offset"               -> there - position
                 [] t.kind = "high"                 -> there \div HALF_RANGE
                 [] t.kind = "low"                  -> there
  IN  [opcode |-> t.opcode, register0 |-> t.register0, register1 |-> t.register1,
       register2 |-> t.register2, immediate |-> field % HALF_RANGE,
       absolute |-> IF t.kind = "absolute" THEN there ELSE 0]

\* Labels are resolved when the whole file has been read: one that is nowhere
\* defined throws.
Assembled(lines) ==
  LET a == FoldLeft(Assemble, Fresh, lines)
      named == {a.text[i].label : i \in DOMAIN a.text} \ {""}
      padding == (-Len(a.data)) % INSTRUCTION_SIZE
  IN  [ok |-> a.ok /\ lines # <<>> /\ named \subseteq DOMAIN a.labels,
       text |-> [i \in DOMAIN a.text |-> Resolved(a, i)],
       data |-> a.data \o [i \in 1 .. padding |-> 0]]

-----------------------------------------------------------------------------
\* A program that the compiler or the assembler refuses has no file: it is
\* modelled as an empty one, which exits with nothing.
ProgramFile(tree) ==
  LET program == Assembled(compile(tree))
  IN  IF program.ok
      THEN [text |-> [i \in DOMAIN program.text |-> Encode(program.text[i])],
            data |-> program.data]
      ELSE [text |-> <<>>, data |-> <<>>]

CompiledInit ==
  /\ source \in Sources
  /\ \E file \in {ProgramFile(source)}, byte \in Uninitialised : LoadProgram(file, byte)

CompiledNext == Next /\ UNCHANGED source

CompiledSpec == CompiledInit /\ [][CompiledNext]_sourceVars

\* The machine keeps iterating.
CompiledFairSpec == CompiledSpec /\ WF_sourceVars(Iterate /\ UNCHANGED source)

-----------------------------------------------------------------------------
(***************************************************************************)
(* Properties.                                                             *)
(***************************************************************************)

\* A program ends with its entry function's return value as the exit code:
\* what the compiler's statements and operators leave in $t0, with operands
\* kept on the stack of temporaries while others are computed, variables and
\* strings in the data segment between the code, and labels of their own for
\* every loop and condition, adds up to the meaning of the program.
ExitsWithMeaning ==
  Ended /\ Meaning(source) \in WordValue =>
    shouldExit /\ trap = "none" /\ exitCode = Meaning(source)

\* A called function gives back the stack of temporaries as it found it: the
\* caller's operands are still below $gp when a call in the middle of an
\* expression returns, however much the callee, and what it calls, pushed.
CallsKeepTemporaries ==
  [][ Len(frames') < Len(frames) =>
        LET call == frames[Len(frames)]
        IN  /\ registers'["gp"] = call.gp
            /\ \A l \in DOMAIN memory :
                 l[1] = "global" /\ l[2] < call.gp - GLOBAL_OFFSET
                   => memory'[l] = call.memory[l]
    ]_sourceVars

=============================================================================
