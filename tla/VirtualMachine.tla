--------------------------- MODULE VirtualMachine ---------------------------
(***************************************************************************)
(* kasm::VirtualMachine: the fetch and execute loop over registers and the *)
(* three regions of memory, system calls and signals.                      *)
(*                                                                         *)
(* Words are numbers below WORD_RANGE, four bytes, the low one first.  The *)
(* bit fields of an instruction are abstracted to Decode, a function from  *)
(* words to instructions; a word outside its domain has no Opcode.  What a *)
(* program prints is left out; what it reads is the environment's choice.  *)
(*                                                                         *)
(* What C++ leaves undefined (an address outside the regions, a division   *)
(* by zero) ends the execution, with trap = "undefined": nothing is        *)
(* claimed of what the process does next.                                  *)
(***************************************************************************)
EXTENDS Integers, Sequences, FiniteSetsExt

CONSTANTS
  BYTE_BIT,             \* bits of a byte (8)
  DATA_SEGMENT_OFFSET,  \* 0x10010000
  STACK_OFFSET,         \* 0x80000000
  GLOBAL_OFFSET,        \* 0xFFFF0000
  STACK_SIZE,
  GLOBAL_SIZE,
  Registers,            \* the registers that programs use
  Decode,               \* word -> instruction
  Programs,             \* program files: [text : sequence of words, data : of bytes]
  Uninitialised,        \* the bytes that uninitialised memory may hold
  InputWords,           \* the words std::cin may deliver
  Lines,                \* the lines std::cin may deliver, as bytes
  HostPointers,         \* what new may return, cut to a word
  MaxFiles              \* bound: files opened by one process

\* 2 ^ n by its definition, for the widths and the shifts that proofs reason about.
PowerOfTwo[n \in Nat] == IF n = 0 THEN 1 ELSE 2 * PowerOfTwo[n - 1]

INSTRUCTION_SIZE == 4
BYTE_RANGE == PowerOfTwo[BYTE_BIT]
WORD_BIT   == INSTRUCTION_SIZE * BYTE_BIT
WORD_RANGE == BYTE_RANGE * BYTE_RANGE * BYTE_RANGE * BYTE_RANGE
HALF_RANGE == BYTE_RANGE * BYTE_RANGE

\* Mutant of Wrap: numbers without a width.
WrapNever(n) == n

Wrap(n) == n % WORD_RANGE

ByteValue == 0 .. BYTE_RANGE - 1
WordValue == 0 .. WORD_RANGE - 1

ArithmeticOpcode ==
  { "ADD", "ADDI", "ADDIU", "ADDU", "AND", "ANDI", "LUI", "MFHI", "MFLO", "NOR", "OR",
    "ORI", "SEQ", "SLL", "SLLV", "SLT", "SLTI", "SLTIU", "SLTU", "SNE", "SRA", "SRL",
    "SRLV", "SUB", "SUBU", "XOR", "XORI" }
BranchOpcode == { "BEQ", "BNE", "BGEZ", "BGTZ", "BLEZ", "BLTZ" }

Opcode == ArithmeticOpcode \cup BranchOpcode \cup
  { "BGEZAL", "BLTZAL", "DIV", "DIVU", "J", "JAL", "JALR", "JR", "LB", "LW", "MULT",
    "MULTU", "SB", "SW", "SYS" }

InstructionType ==
  [opcode : Opcode, register0 : Registers, register1 : Registers, register2 : Registers,
   immediate : 0 .. HALF_RANGE - 1, absolute : WordValue]

ASSUME LayoutAssumption ==
  /\ BYTE_BIT \in Nat \ {0}
  /\ {DATA_SEGMENT_OFFSET, STACK_OFFSET, GLOBAL_OFFSET} \subseteq WordValue
  /\ {STACK_SIZE, GLOBAL_SIZE} \subseteq Nat
  /\ 0 < DATA_SEGMENT_OFFSET /\ DATA_SEGMENT_OFFSET < STACK_OFFSET
  /\ STACK_OFFSET + STACK_SIZE <= GLOBAL_OFFSET
  /\ GLOBAL_OFFSET + GLOBAL_SIZE <= WORD_RANGE

ASSUME DecodeAssumption ==
  /\ {"zero", "v0", "a0", "a1", "a2", "gp", "sp", "fp", "ra"} \subseteq Registers
  /\ DOMAIN Decode \subseteq WordValue
  /\ \A word \in DOMAIN Decode : Decode[word] \in InstructionType

\* Text and data fit in their address ranges.
ASSUME ProgramAssumption ==
  \A file \in Programs :
    /\ file.text \in Seq(WordValue) /\ file.data \in Seq(ByteValue)
    /\ INSTRUCTION_SIZE * Len(file.text) < DATA_SEGMENT_OFFSET
    /\ DATA_SEGMENT_OFFSET + Len(file.data) <= STACK_OFFSET

ASSUME EnvironmentAssumption ==
  /\ Uninitialised \subseteq ByteValue
  /\ InputWords \cup HostPointers \subseteq WordValue
  /\ \A line \in Lines : line \in Seq(ByteValue)
  /\ MaxFiles \in WordValue

VARIABLES
  textSegmentLength,  \* of the program header
  memory,             \* location -> byte
  pc, hi, lo,
  registers,
  shouldExit, exitCode,
  files,              \* the handles of open files
  fileID,             \* the next handle
  trap                \* what ended the last instruction: see TrapType

\* History variable: the calls that have not returned yet.
VARIABLE frames

machine == <<memory, pc, hi, lo, registers, shouldExit, exitCode, files, fileID>>
machineVars == <<textSegmentLength, memory, pc, hi, lo, registers, shouldExit, exitCode,
                 files, fileID, trap, frames>>

TrapType == {"none", "ILLEGAL_OPCODE", "exception", "undefined"}

-----------------------------------------------------------------------------
(***************************************************************************)
(* Memory.  A location is a region and an index in it.  Text and data are  *)
(* one vector, so that an address past the end of the text is in the data. *)
(***************************************************************************)

Locate(address) ==
  IF address < DATA_SEGMENT_OFFSET THEN <<"image", address>>
  ELSE IF address < STACK_OFFSET
       THEN <<"image", address - DATA_SEGMENT_OFFSET + textSegmentLength>>
  ELSE IF address < GLOBAL_OFFSET THEN <<"stack", address - STACK_OFFSET>>
  ELSE <<"global", address - GLOBAL_OFFSET>>

\* The i-th byte from an address on, through a pointer.
Beyond(address, i) == <<Locate(address)[1], Locate(address)[2] + i>>

WordLocations(address) == {Beyond(address, i) : i \in 0 .. INSTRUCTION_SIZE - 1}

ByteOfWord(word, i) == (word \div PowerOfTwo[BYTE_BIT * i]) % BYTE_RANGE

LoadWord(m, address) ==
  LET byte(i) == m[Beyond(address, i)]
  IN  byte(0) + BYTE_RANGE * (byte(1) + BYTE_RANGE * (byte(2) + BYTE_RANGE * byte(3)))

StoreWord(m, address, word) ==
  [l \in DOMAIN m |-> IF l \in WordLocations(address)
                      THEN ByteOfWord(word, l[2] - Locate(address)[2]) ELSE m[l]]

\* A string, byte by byte through getCharPtr.
StoreString(m, address, bytes) ==
  LET hits(l) == {i \in 1 .. Len(bytes) : Locate(Wrap(address + i - 1)) = l}
  IN  [l \in DOMAIN m |-> IF hits(l) = {} THEN m[l] ELSE bytes[Max(hits(l))]]

StringLocations(address, length) ==
  {Locate(Wrap(address + i)) : i \in 0 .. length - 1}

\* A C string starts at an address: there is a null byte before the region's end.
Terminated(address) ==
  \E l \in DOMAIN memory :
    /\ l[1] = Locate(address)[1] /\ l[2] >= Locate(address)[2]
    /\ memory[l] = 0

-----------------------------------------------------------------------------
(***************************************************************************)
(* Loading and resetting.                                                  *)
(***************************************************************************)

Image(file) ==
  [i \in 0 .. INSTRUCTION_SIZE * Len(file.text) + Len(file.data) - 1 |->
     IF i < INSTRUCTION_SIZE * Len(file.text)
     THEN ByteOfWord(file.text[i \div INSTRUCTION_SIZE + 1], i % INSTRUCTION_SIZE)
     ELSE file.data[i - INSTRUCTION_SIZE * Len(file.text) + 1]]

InitialRegisters ==
  [r \in Registers |-> CASE r = "sp" -> STACK_OFFSET + STACK_SIZE
                         [] r = "gp" -> GLOBAL_OFFSET
                         [] OTHER -> 0]

\* reset() leaves memory, hi, lo and the files as they are.
Reset ==
  /\ pc' = 0
  /\ registers' = InitialRegisters
  /\ shouldExit' = FALSE
  /\ exitCode' = 0
  /\ trap' = "none"
  /\ UNCHANGED <<textSegmentLength, memory, hi, lo, files, fileID>>

\* loadProgram(): the program, and memory as it is found.
LoadProgram(file, byte) ==
  /\ textSegmentLength = INSTRUCTION_SIZE * Len(file.text)
  /\ memory = [l \in {"image"} \X DOMAIN Image(file)
                     \cup {"stack"} \X (0 .. STACK_SIZE - 1)
                     \cup {"global"} \X (0 .. GLOBAL_SIZE - 1) |->
                 IF l[1] = "image" THEN Image(file)[l[2]] ELSE byte]
  /\ hi = byte /\ lo = byte
  /\ pc = 0
  /\ registers = InitialRegisters
  /\ shouldExit = FALSE
  /\ exitCode = 0
  /\ files = {}
  /\ fileID = 1
  /\ trap = "none"
  /\ frames = <<>>

Init == \E file \in Programs, byte \in Uninitialised : LoadProgram(file, byte)

-----------------------------------------------------------------------------
(***************************************************************************)
(* Arithmetic.                                                             *)
(***************************************************************************)

Bits(word) == {i \in 0 .. WORD_BIT - 1 : (word \div (2 ^ i)) % 2 = 1}

\* The word with these bits, from the highest on.
FromBits(bits) ==
  LET Highest[n \in Nat] ==
        IF n = 0 THEN 0 ELSE 2 * Highest[n - 1] + (IF WORD_BIT - n \in bits THEN 1 ELSE 0)
  IN  Highest[WORD_BIT]

BitAnd(a, b) == FromBits(Bits(a) \cap Bits(b))
BitOr(a, b)  == FromBits(Bits(a) \cup Bits(b))
BitXor(a, b) == FromBits((Bits(a) \ Bits(b)) \cup (Bits(b) \ Bits(a)))
BitNot(a)    == WORD_RANGE - 1 - a

\* How far the processor shifts.  Further than a word is undefined: the count
\* is cut to the bits of a word, or everything is shifted out.
Distances(count) ==
  IF count < WORD_BIT THEN {count} ELSE {count % WORD_BIT, WORD_BIT}

ShiftLeft(word, n)  == (word % PowerOfTwo[WORD_BIT - n]) * PowerOfTwo[n]
ShiftRight(word, n) == word \div PowerOfTwo[n]

\* (word >> i) | ~(~0U >> i)
ShiftRightOnes(word, n) ==
  ShiftRight(word, n) + BitNot(ShiftRight(WORD_RANGE - 1, n))

Bool(condition) == IF condition THEN 1 ELSE 0

\* The low 16 bits of an instruction as a signed number.
SignExtended(half) == IF half >= HALF_RANGE \div 2 THEN half - HALF_RANGE ELSE half

\* What an instruction may put in its destination register.
Results(d) ==
  LET s == registers[d.register1]
      t == registers[d.register2]
      i == d.immediate
  IN  CASE d.opcode \in {"ADD", "ADDU"}  -> {Wrap(s + t)}
        [] d.opcode = "ADDI"             -> {Wrap(s + SignExtended(i))}
        [] d.opcode = "ADDIU"            -> {Wrap(s + i)}
        [] d.opcode \in {"SUB", "SUBU"}  -> {Wrap(s - t)}
        [] d.opcode = "AND"              -> {BitAnd(s, t)}
        [] d.opcode = "ANDI"             -> {BitAnd(s, i)}
        [] d.opcode = "OR"               -> {BitOr(s, t)}
        [] d.opcode = "ORI"              -> {BitOr(s, i)}
        [] d.opcode = "XOR"              -> {BitXor(s, t)}
        [] d.opcode = "XORI"             -> {BitXor(s, i)}
        [] d.opcode = "NOR"              -> {BitNot(BitOr(s, t))}
        [] d.opcode = "LUI"              -> {ShiftLeft(i, WORD_BIT \div 2)}
        [] d.opcode = "SLL"              -> {ShiftLeft(s, n) : n \in Distances(i)}
        [] d.opcode = "SLLV"             -> {ShiftLeft(s, n) : n \in Distances(t)}
        [] d.opcode = "SRL"              -> {ShiftRight(s, n) : n \in Distances(i)}
        [] d.opcode = "SRLV"             -> {ShiftRight(s, n) : n \in Distances(t)}
        [] d.opcode = "SRA"              -> {ShiftRightOnes(s, n) : n \in Distances(i)}
        [] d.opcode \in {"SLT", "SLTU"}  -> {Bool(s < t)}
        [] d.opcode \in {"SLTI", "SLTIU"} -> {Bool(s < i)}
        [] d.opcode = "SEQ"              -> {Bool(s = t)}
        [] d.opcode = "SNE"              -> {Bool(s # t)}
        [] d.opcode = "MFHI"             -> {hi}
        [] d.opcode = "MFLO"             -> {lo}

-----------------------------------------------------------------------------
(***************************************************************************)
(* executeInstruction, one action per group of cases.  registers[ZERO] is  *)
(* written like any other register: the operator[] that hard-wires it is   *)
(* the const one, which nothing calls.                                     *)
(***************************************************************************)

Following == Wrap(pc + INSTRUCTION_SIZE)

advancePc == pc' = Following

\* resolveAddress.
OffsetAddress(d)   == Wrap(SignExtended(d.immediate) + pc)
IndirectAddress(d) == Wrap(registers[d.register1] + SignExtended(d.immediate) + pc)

SetRegister(r, word) == registers' = [registers EXCEPT ![r] = word]

Trap(kind) ==
  /\ trap' = kind
  /\ UNCHANGED machine

Arithmetic(d) ==
  /\ d.opcode \in ArithmeticOpcode
  /\ \E word \in Results(d) : SetRegister(d.register0, word)
  /\ advancePc
  /\ UNCHANGED <<memory, hi, lo, shouldExit, exitCode, files, fileID, trap>>

\* The comparisons are of unsigned numbers.
\* Mutant of Taken: bne tests its second register for zero.
TakenIfSet(d) ==
  CASE d.opcode = "BEQ"             -> registers[d.register0] = registers[d.register1]
    [] d.opcode = "BNE"             -> registers[d.register1] # 0
    [] d.opcode = "BGTZ"            -> registers[d.register0] > 0
    [] d.opcode = "BLEZ"            -> registers[d.register0] = 0
    [] d.opcode \in {"BGEZ", "BGEZAL"} -> TRUE
    [] d.opcode \in {"BLTZ", "BLTZAL"} -> FALSE

Taken(d) ==
  CASE d.opcode = "BEQ"             -> registers[d.register0] = registers[d.register1]
    [] d.opcode = "BNE"             -> registers[d.register0] # registers[d.register1]
    [] d.opcode = "BGTZ"            -> registers[d.register0] > 0
    [] d.opcode = "BLEZ"            -> registers[d.register0] = 0
    [] d.opcode \in {"BGEZ", "BGEZAL"} -> TRUE
    [] d.opcode \in {"BLTZ", "BLTZAL"} -> FALSE

Branch(d) ==
  /\ d.opcode \in BranchOpcode
  /\ pc' = IF Taken(d) THEN OffsetAddress(d) ELSE Following
  /\ UNCHANGED <<memory, hi, lo, registers, shouldExit, exitCode, files, fileID, trap>>

\* BLTZAL, never taken, advances the pc before it looks and again after.
SkipTwo(d) ==
  /\ d.opcode = "BLTZAL"
  /\ pc' = Wrap(pc + 2 * INSTRUCTION_SIZE)
  /\ UNCHANGED <<memory, hi, lo, registers, shouldExit, exitCode, files, fileID, trap>>

Divide(d) ==
  /\ d.opcode \in {"DIV", "DIVU"}
  /\ LET f == registers[d.register0]
         s == registers[d.register1]
     IN  IF s = 0 THEN Trap("undefined")
         ELSE /\ lo' = f \div s
              /\ hi' = f % s
              /\ advancePc
              /\ UNCHANGED <<memory, registers, shouldExit, exitCode, files, fileID, trap>>

Multiply(d) ==
  /\ d.opcode \in {"MULT", "MULTU"}
  /\ LET product == registers[d.register0] * registers[d.register1]
     IN  lo' = product % WORD_RANGE /\ hi' = product \div WORD_RANGE
  /\ advancePc
  /\ UNCHANGED <<memory, registers, shouldExit, exitCode, files, fileID, trap>>

\* Mutant of Jump: the link is the address of the call itself.
JumpLinksHere(d) ==
  /\ d.opcode \in {"J", "JAL", "BGEZAL"}
  /\ pc' = IF d.opcode = "BGEZAL" THEN OffsetAddress(d) ELSE d.absolute
  /\ IF d.opcode = "J" THEN UNCHANGED registers ELSE SetRegister("ra", pc)
  /\ UNCHANGED <<memory, hi, lo, shouldExit, exitCode, files, fileID, trap>>

Jump(d) ==
  /\ d.opcode \in {"J", "JAL", "BGEZAL"}
  /\ pc' = IF d.opcode = "BGEZAL" THEN OffsetAddress(d) ELSE d.absolute
  /\ IF d.opcode = "J" THEN UNCHANGED registers ELSE SetRegister("ra", Following)
  /\ UNCHANGED <<memory, hi, lo, shouldExit, exitCode, files, fileID, trap>>

\* jalr writes the link before it reads the target.
JumpRegister(d) ==
  /\ d.opcode \in {"JR", "JALR"}
  /\ IF d.opcode = "JALR" THEN SetRegister(d.register1, Following) ELSE UNCHANGED registers
  /\ pc' = registers'[d.register0]
  /\ UNCHANGED <<memory, hi, lo, shouldExit, exitCode, files, fileID, trap>>

\* The locations an instruction loads from or stores to.
Operand(d) ==
  IF d.opcode \in {"LB", "SB"} THEN {Locate(IndirectAddress(d))}
  ELSE WordLocations(IndirectAddress(d))

Load(d) ==
  /\ d.opcode \in {"LB", "LW"}
  /\ IF ~(Operand(d) \subseteq DOMAIN memory) THEN Trap("undefined")
     ELSE /\ SetRegister(d.register0, IF d.opcode = "LB"
                                      THEN memory[Locate(IndirectAddress(d))]
                                      ELSE LoadWord(memory, IndirectAddress(d)))
          /\ advancePc
          /\ UNCHANGED <<memory, hi, lo, shouldExit, exitCode, files, fileID, trap>>

Store(d) ==
  /\ d.opcode \in {"SB", "SW"}
  /\ IF ~(Operand(d) \subseteq DOMAIN memory) THEN Trap("undefined")
     ELSE /\ memory' = IF d.opcode = "SB"
                       THEN [memory EXCEPT ![Locate(IndirectAddress(d))] =
                               registers[d.register0] % BYTE_RANGE]
                       ELSE StoreWord(memory, IndirectAddress(d), registers[d.register0])
          /\ advancePc
          /\ UNCHANGED <<hi, lo, registers, shouldExit, exitCode, files, fileID, trap>>

-----------------------------------------------------------------------------
(***************************************************************************)
(* systemCall, by the code in $v0, and the advance of the pc after it.     *)
(***************************************************************************)

Service(code) == registers["v0"] = code

ServiceExit ==
  /\ Service(0)
  /\ shouldExit' = TRUE
  /\ exitCode' = registers["a0"]
  /\ advancePc
  /\ UNCHANGED <<memory, hi, lo, registers, files, fileID, trap>>

\* READ_INT and READ_CHAR; at the end of the input the first reads nothing.
ServiceRead ==
  /\ Service(1) \/ Service(3)
  /\ \/ \E word \in InputWords : SetRegister("a0", word)
     \/ Service(1) /\ UNCHANGED registers
  /\ advancePc
  /\ UNCHANGED <<memory, hi, lo, shouldExit, exitCode, files, fileID, trap>>

\* WRITE_INT, WRITE_CHAR and WRITE_STRING.
ServiceWrite ==
  /\ Service(2) \/ Service(4) \/ Service(6)
  /\ IF Service(6) /\ ~Terminated(registers["a0"]) THEN Trap("undefined")
     ELSE /\ advancePc
          /\ UNCHANGED <<memory, hi, lo, registers, shouldExit, exitCode, files, fileID, trap>>

\* Mutant of Cut: a line as long as the buffer leaves no room for the null.
CutAtSize(line, size) == SubSeq(line, 1, Min({Len(line), size}))

\* The loop leaves when the next character would take the last byte.
Cut(line, size) == SubSeq(line, 1, Min({Len(line), size - 1}))

\* A line, cut to the buffer, and a null byte after it; no buffer, no line.
ServiceReadString ==
  /\ Service(5)
  /\ IF registers["a1"] = 0
     THEN advancePc /\ UNCHANGED <<memory, trap>>
     ELSE \E line \in Lines :
            LET bytes == Append(Cut(line, registers["a1"]), 0)
            IN  IF StringLocations(registers["a0"], Len(bytes)) \subseteq DOMAIN memory
                THEN /\ memory' = StoreString(memory, registers["a0"], bytes)
                     /\ advancePc
                     /\ UNCHANGED trap
                ELSE trap' = "undefined" /\ UNCHANGED <<memory, pc>>
  /\ UNCHANGED <<hi, lo, registers, shouldExit, exitCode, files, fileID>>

ServiceAllocate ==
  /\ Service(7)
  /\ \E pointer \in HostPointers : SetRegister("v0", pointer)
  /\ advancePc
  /\ UNCHANGED <<memory, hi, lo, shouldExit, exitCode, files, fileID, trap>>

\* What is deleted is a pointer cut to a word, a pointer again.
ServiceDeallocate ==
  /\ Service(8)
  /\ \/ Trap("undefined")
     \/ /\ advancePc
        /\ UNCHANGED <<memory, hi, lo, registers, shouldExit, exitCode, files, fileID, trap>>

ServiceOpenFile ==
  /\ Service(9)
  /\ fileID <= MaxFiles
  /\ IF registers["a2"] \notin 1 .. 3 THEN Trap("exception")
     ELSE IF ~Terminated(registers["a0"]) THEN Trap("undefined")
     ELSE /\ files' = files \cup {fileID}
          /\ fileID' = fileID + 1
          /\ SetRegister("v0", fileID)
          /\ advancePc
          /\ UNCHANGED <<memory, hi, lo, shouldExit, exitCode, trap>>

\* files.at throws on a handle that is not open.
ServiceCloseFile ==
  /\ Service(10)
  /\ IF registers["a0"] \notin files THEN Trap("exception")
     ELSE /\ files' = files \ {registers["a0"]}
          /\ advancePc
          /\ UNCHANGED <<memory, hi, lo, registers, shouldExit, exitCode, fileID, trap>>

ServiceSeek ==
  /\ Service(11)
  /\ IF registers["a0"] \notin files \/ registers["a2"] \notin 0 .. 2 THEN Trap("exception")
     ELSE /\ advancePc
          /\ UNCHANGED <<memory, hi, lo, registers, shouldExit, exitCode, files, fileID, trap>>

\* The message is a string literal plus the code: read past its end unless
\* the code is small.
ServiceUnknown ==
  /\ registers["v0"] > 11
  /\ Trap("exception") \/ (registers["v0"] > 21 /\ Trap("undefined"))

\* The locations a system call reads or writes, at most.
Buffer ==
  CASE Service(5) -> StringLocations(registers["a0"], registers["a1"])
    [] Service(6) \/ Service(9) ->
         {l \in DOMAIN memory : /\ l[1] = Locate(registers["a0"])[1]
                               /\ l[2] >= Locate(registers["a0"])[2]}
    [] OTHER -> {}

SystemCall(d) ==
  /\ d.opcode = "SYS"
  /\ \/ ServiceExit \/ ServiceRead \/ ServiceWrite \/ ServiceReadString
     \/ ServiceAllocate \/ ServiceDeallocate
     \/ ServiceOpenFile \/ ServiceCloseFile \/ ServiceSeek \/ ServiceUnknown

-----------------------------------------------------------------------------
(***************************************************************************)
(* fetchInstruction, executeInstruction, step and run.                     *)
(***************************************************************************)

Fetchable == WordLocations(pc) \subseteq DOMAIN memory

ExecuteInstruction(d) ==
  \/ Arithmetic(d) \/ Branch(d) \/ SkipTwo(d) \/ Divide(d) \/ Multiply(d)
  \/ Jump(d) \/ JumpRegister(d) \/ Load(d) \/ Store(d) \/ SystemCall(d)

\* No handler is ever set for a signal: it is thrown.
Step ==
  /\ IF ~Fetchable THEN Trap("undefined")
     ELSE IF LoadWord(memory, pc) \in DOMAIN Decode
     THEN \E d \in {Decode[LoadWord(memory, pc)]} : ExecuteInstruction(d)
     ELSE Trap("ILLEGAL_OPCODE")
  /\ UNCHANGED textSegmentLength

Frame == [to |-> Following, sp |-> registers["sp"], fp |-> registers["fp"],
          gp |-> registers["gp"], memory |-> memory]

\* The calls that have not returned after an instruction.
Recorded(d) ==
  IF d.opcode \in {"JAL", "BGEZAL", "JALR"} THEN Append(frames, Frame)
  ELSE IF d.opcode = "JR" /\ d.register0 = "ra" /\ frames # <<>>
  THEN SubSeq(frames, 1, Len(frames) - 1)
  ELSE frames

\* The history of a step.
Record ==
  IF Fetchable /\ LoadWord(memory, pc) \in DOMAIN Decode
  THEN \E d \in {Decode[LoadWord(memory, pc)]} : frames' = Recorded(d)
  ELSE UNCHANGED frames

\* The condition of run()'s loop.
Running == pc < textSegmentLength /\ ~shouldExit

Iterate == trap = "none" /\ Running /\ Step /\ Record

\* run() returns, or an exception leaves execute().
Ended == trap # "none" \/ ~Running

Finished == Ended /\ UNCHANGED machineVars

Next == Iterate \/ Finished

Spec == Init /\ [][Next]_machineVars

\* The machine waits for nothing but its input, which the environment gives.
FairSpec == Spec /\ WF_machineVars(Iterate)

-----------------------------------------------------------------------------
(***************************************************************************)
(* Properties.                                                             *)
(***************************************************************************)

FrameType ==
  [to : WordValue, sp : WordValue, fp : WordValue, gp : WordValue,
   memory : [DOMAIN memory -> ByteValue]]

TypeOK ==
  /\ textSegmentLength \in Nat
  /\ DOMAIN memory \subseteq {"image", "stack", "global"} \X Nat
  /\ memory \in [DOMAIN memory -> ByteValue]
  /\ {pc, hi, lo, exitCode} \subseteq WordValue
  /\ registers \in [Registers -> WordValue]
  /\ shouldExit \in BOOLEAN
  /\ fileID \in 1 .. MaxFiles + 1
  /\ files \subseteq 1 .. fileID - 1
  /\ trap \in TrapType
  /\ frames \in Seq(FrameType)

\* The next instruction, if one is executed, is of the opcode.
Executes(opcode) ==
  /\ trap = "none" /\ Running /\ Fetchable
  /\ LoadWord(memory, pc) \in DOMAIN Decode
  /\ Decode[LoadWord(memory, pc)].opcode = opcode

\* Procedures that begin with enter, end with ret and balance nothing by
\* hand return to the instruction after their call, with the stack and frame
\* pointers and the frames above that the call found, however deep they
\* recurse: enter saves what ret takes back, in the opposite order, and no
\* frame overwrites another.
ReturnsToCaller ==
  [][ Len(frames') < Len(frames) =>
        LET call == frames[Len(frames)]
        IN  /\ pc' = call.to
            /\ registers'["sp"] = call.sp
            /\ registers'["fp"] = call.fp
            /\ \A l \in DOMAIN memory :
                 l[1] = "stack" /\ l[2] >= call.sp - STACK_OFFSET
                   => memory'[l] = call.memory[l]
    ]_machineVars

\* read_string changes no byte outside the buffer the program names, whatever
\* line the input holds, and leaves a string in it: README, System Calls,
\* "read_string | $a0 = buffer address, $a1 = buffer size".
StringInBuffer ==
  [][ Executes("SYS") /\ Service(5) /\ trap' = "none" /\ registers["a1"] > 0 =>
        /\ \A l \in DOMAIN memory : memory'[l] # memory[l] => l \in Buffer
        /\ \E l \in Buffer \cap DOMAIN memory : memory'[l] = 0
    ]_machineVars

\* Programs without a backward jump that is always taken come to an end.
Termination == <>Ended

=============================================================================
