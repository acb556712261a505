# kasm in TLA+

kasm is an assembler for a small MIPS-like machine, with a virtual machine, a
debugger, a disassembler and a compiler for a C-like language. This directory
models it in TLA+, checks the models with TLC and proves theorems about them
with TLAPS. Paths such as `src/assembler.yy` are relative to the repository.

## The system

| Part | Source | State it keeps | Operations |
| --- | --- | --- | --- |
| Binary builder | `src/binaryBuilder.*` | location counter `cursor`, text and data output streams with their put positions | `open`, `close`, `align`, `pad`, `writeWord/Byte/Data/String`, `setLocation`, `setSegmentType` |
| Assembler core | `src/assembler.yy`, `src/assembler_util.cpp` | `labelLocations`, `unresolvedAddressLocations`, `macros`, `macroFunctions` | one grammar action per statement, `resolveAddress`, `defineLabel`, `defineMacro`, the patch loop, `saveSymbolTable` |
| Assembler's lexer and macro expansion | `src/assembler.yy`, generated into `src/assembler.cpp` | `macroCallStack`, `labelInMacro`, `flag` | `yylex`, `argumentList`, `lineAsString`, `blockAsString`, `eofCallback` |
| Assembler's parser | generated into `src/assembler.cpp` | `yystack_`, look-ahead | shift, reduce, the action of each rule |
| Input stream | `src/compoundInputFileStream.*` | list of nested pieces of sources, the current one, the file table | `include`, `pushString`, `put`, `eof`, `peek`, `seekg`, `tellg` |
| Virtual machine | `src/virtualMachine.*` | memory, registers, `pc`, `hi`/`lo`, open files, exit flag | load, fetch, execute, system calls, signals |
| Debugger | `src/debugger.*` | breakpoints with the words they replace, `until` set, symbols | the commands of `cli` over the virtual machine's `run` and `step` |
| Disassembler | `src/disassembler.*` | symbol table | lists a program as source |
| klang's lexer and parser | `src/compiler.yy`, generated into `src/compiler.cpp` and `src/compiler.tab.hpp` | `yystack_`, look-ahead, `parseFlag`, `astRoot` | tokens, shift, reduce, a node of the tree per rule |
| Compiler | `src/compiler_util.cpp`, `src/ast.*` | `entry`, `lval`, `uid`, `localVariables` | `semanticAnalysis`, `codeGeneration` |
| Command line | `src/kasm.cpp` | none | `asm`, `dsm`, `vm` |

How they interact. The lexer pulls characters from the input stream; parser
actions push text back into it (`.include`, macro calls) while the lexer still
holds positions in it, and the stream calls back (`eofCallback`) when a macro's
text runs out. The parser calls the lexer for a token when it needs one, and its
actions set the lexer's mode. Parser actions call the binary builder; `assemble()`
then goes back over the builder's output to patch forward references. The builder's file
is the virtual machine's memory: the two share `common.hpp` and nothing else.
The debugger writes into that memory while the machine executes it. The compiler
writes source for the assembler, and so does the disassembler.

Everything is sequential. What is hard is long sequences of calls over state
that is kept twice: the location counter and two streams, the label table and
words already written, a position in the input and the list it is a position
in, a look-ahead token and the mode it was read in, a breakpoint and the word
under it, an operand on the stack of temporaries and the `$gp` that points to it.

What makes each part correct:

- *builder*: cursor and streams agree; a write touches the bytes at the cursor
  and no others; a gap is filled with zeros, in its own segment;
- *assembler*: the program file holds, at each address, what the source put
  there, each label at its final address whether used before or after its
  definition; labels name the first byte of their statement; the virtual
  machine decodes operands back to what they mean;
- *macro expansion*: what is assembled is what substitution in place gives;
- *input stream*: the characters read are the nesting of the sources in order,
  each callback happens once, at the end of its source, innermost first;
- *parsers*: what their tables and actions make of a text is what the grammar,
  and the README's tables of instructions, say is written there;
- *virtual machine*: each instruction does what the README's tables say, and
  memory is touched where the address says;
- *debugger*: with all breakpoints taken out, memory is what the program alone
  would have made it, and a breakpoint neither loses nor repeats an instruction;
- *disassembler*: what it lists assembles to the same program;
- *compiler*: a program exits with what its tree means.

## Modules

| Module | What it is |
| --- | --- |
| `Common` | memory map, words and bytes |
| `BinaryBuilder` | the builder: a record, and one operator per member function |
| `SegmentedImage` | abstract specification: what a builder promises |
| `ImageBuilder` | a client making any contracted sequence of calls; it implements `SegmentedImage` |
| `Program` | how the virtual machine maps a program file and decodes addresses |
| `Assembler` | parser actions, address resolution, patch loop, program file |
| `InputStream` | the stream: a record, and one operator per member function |
| `NestedText` | abstract specification: what the input stream promises its reader |
| `MacroExpansion` | lexer and parser actions that decide what is read next, over `InputStream` |
| `Lexing`, `KasmLexer`, `KlangLexer` | what the two lexers have in common; the rules and modes of each |
| `Automaton` | how bison's parsers read their tables |
| `KasmTables`, `KlangTables` | the tables, as functions |
| `KasmGrammar`, `KlangGrammar` | the rules of the grammars the tables were generated from, numbered as bison numbers them |
| `KasmParser`, `KlangParser` | the two parsers: lexer, automaton, actions |
| `SyntaxTree` | the nodes of klang's trees |
| `Compiler` | `semanticAnalysis` and `codeGeneration` of every node |
| `CompiledProgram` | `Compiler`, what the assembler makes of its lines, and `VirtualMachine` that executes it |
| `VirtualMachine` | memory regions, registers, instructions, system calls, the run loop |
| `Debugger` | the command line and its breakpoints, over `VirtualMachine` (it extends it, and instantiates it once more as the machine that runs the program alone) |
| `Disassembler` | what is listed of a program |
| `MC*` | instances for TLC, with the meanings that the models are compared to |
| `BinaryBuilderProofs`, `ImageBuilderProofs` | lemmas about the builder's operators; the theorems of `ImageBuilder` |
| `LinkingProofs` | types of the assembler, its linking invariant and what follows from it; where labels and words are, and what operands decode to |
| `MacroExpansionProofs` | the input stream under the lexer: that positions lead back, and that texts are inserted whole |
| `DebuggerProofs` | types of the machine and where `read_string` writes; types of the debugger, the `until` set, and that breakpoints stop a program and disturb nothing |
| `RecursiveFunctions` | induction and recursive functions, as lemmas that first-order provers can use |
| `KasmParserProofs`, `KlangParserProofs` | what the tables say about the states that act, and about which state may lie on which; that the automata derive by the grammars |

Recursive operators are in `Compiler` and in the `MC` modules only, over syntax
trees and nested sources, which no theorem is about.

### The abstraction

A word is a record of its address field, a number, and everything else in it,
one opaque value: linking is about the number. A byte is one of the four bytes
of a word, so that a word written over two placeholders, or half patched, is
seen. The field of an address that is not resolved yet is `Junk`: the code
builds words in a union it does not initialise. A *unit* is what one pass of
a statement's loop writes: a word, a byte, or the two words of `la`.

### BinaryBuilder and ImageBuilder

`Builder` is `[cursor, text, data]`. The streams are `std::ostringstream`s, of
which only what is used is modelled: a buffer, a put position, a write that
overwrites and then extends, and seeks. `writeByte`, `writeData` and
`writeString` go to the data segment wherever the cursor is, as in the code;
so does the gap that `setLocation` fills in its text branch. `ImageBuilder`
lets a client call anything in any order, within the contract the assembler
asserts before its data directives and follows in its patch loop: bytes,
padding and alignment with the cursor in the data segment, text locations no
further than the end of the text. Under that contract it implements
`SegmentedImage`: two gapless segments and a cursor.

### Assembler

This is the assembler after its parser: the environment picks statements one at a
time (`\E` over small sets in `Parse`). `phase` is where the parser, or `assemble()`, is: `statement` (about to
read one), `emitting` (in a statement's loop, one step per unit), `reducing`
(the labels before a statement are defined after it, innermost first),
`patching`, and the three ends: `assembled`, `failed` (an exception), `aborted`
(a syntax error, after which `assemble()` just returns, or a failed assertion).
`END_OF_FILE` is a statement in the grammar, so labels may precede it.
`AssertionsActive` says whether `KASM_ASSERT` is compiled in; both are real
builds, and the constant is either in the theorems. `.include`, `.dbg` and macro
calls change what is read next, which is `MacroExpansion`'s, and not this state; a
macro that `.define` or `.macro` defines matters here for the clash of names with labels.

History variables record what the source asked for, for the properties:
`listing` (which unit, and which byte of it, belongs at an address), `owner`
(which statement a label labels) and `misplaced` (a data directive was
assembled in the text segment).

### InputStream, NestedText and MacroExpansion

The list of entries is a sequence and `it` an index in it; cutting an entry in two,
the stubs that keep a callback for a text already read, and what `eof` does on
its way over entries are as in the code. Files and pushed strings are one
table. `NestedText` is what a reader may rely on: one text, read from front to
back, in which reading past the mark of a call ends the innermost call.

A step of `MacroExpansion` lexes one token, looks ahead and seeks back as the
lexer does, and then does what the grammar does with the token before the next
one is read. A character stands for a keyword, a directive or a string
literal, or is part of an identifier; all statements that macros are not about
are one of two, `n` without an operand and `j` with a label. What is read past
the last entry is chosen by the environment (`Garbage`), as in the code it is
what the character held before. `undefined` is where the code has undefined
behaviour: `back()` of an empty call stack, an argument that was not passed.
`astray` is a history variable: a text was inserted where no position is counted from,
after the last entry or into a stub. After that the positions of two entries may overlap,
and `seekg` may find the wrong one. It takes little: a `.dbg`, or an `.include`, on the
last line of a source that ends in a newline is complete only when the lexer has read the
end of the file, and its text is then put behind everything that has one. The run has such
a source.

### The parsers

A text is a sequence of units: a word or a numeral whole, any other character by
itself. `yylex` gives what one turn of the lexer's loop finds. Each step of a parser is
one turn of the lexer's loop or of the automaton's: shift, reduce with its
action, accept, or an end (`aborted` by a syntax error; `thrown` by an exception;
`hung`, in a loop that reads a block nothing closes). The tables in
`KasmTables` and `KlangTables` are the generated ones, rows packed as bison packed
them; `Automaton` is instantiated with each. The actions of `KasmParser` put out
what they do to program, macros and input (`output`), in order; what comes of
it is in `Assembler` and `MacroExpansion`. Those of `KlangParser` make the tree.
Locations, messages and the destruction of values are left out. A text that
does not end in a newline loses its last token, in both lexers; both runs have such texts.

The map names the generated files for these modules, since it is they that are compiled:
the build makes them from the grammars only if `KASM_GRAMMAR` is on. So nothing but what
is checked here says that tables and grammar belong together: `KasmGrammar` and
`KlangGrammar` are written from the `.yy` files, everything else from the generated ones,
and `FollowsGrammar` relates the two. A rule is a triple, its number, its left side and
the sequence of its right side; the number is what the actions go by. `yystos` names the
symbol of a state.

### Compiler and CompiledProgram

`Gen` is `codeGeneration`: a function from what has been written, and the static
variables, to the same after a node. Lines are records, not text; labels are
named as the code names them, so that a name of the program may clash.
`CompiledProgram` assembles them with the expansions of the pseudoinstructions
they use, encodes the words and runs the machine; a program that the compiler
or the assembler refuses is an empty one, of which nothing is claimed.

### Disassembler

The listing is a text of the units that `KasmLexer` reads, so that
`ListingsReassemble` is about what the assembler's parser makes of it. Words and
bytes are numbers of small width; blanks that only lay it out are left out.

### VirtualMachine

Memory is a function from locations, a region and an index in it, to bytes.
Text and data are one region, as they are one vector in `Program`: an address
past the end of the text is in the data. Words are numbers with a width, four
bytes, the low one first. `Decode`, a constant, maps words to instructions;
the bit fields it stands for are the `Word` of `Common`. One action per group
of `case`s in `executeInstruction`, one per system call; `Results` says what
the instructions that only write a register write.

`trap` records how an instruction ended other than by going on: the signal
`ILLEGAL_OPCODE`, which is thrown because nothing sets a handler; an exception;
or undefined behaviour (an address that is in no region, a division by zero).
After the last nothing is claimed. Shifts by more than a word give either
result that processors give. What is read from `std::cin` is chosen by the
environment, and so is what uninitialised memory, `hi` and `lo` hold (one
value for all of it). `frames` is a history variable: the calls not returned
from, each with the machine it left. `Record` keeps it, beside the step of the
machine and not as a part of it: what the machine does does not depend on it. The const `operator[]` of `Registers`
that would hard-wire `$zero` is never called, so the model has none. System
calls take their code from `$v0` and an exit code from `$a0`, as in the code
and the sample programs; the README's table says `$a0` and `$a1`.

### Debugger

A command is an action; `e`, `c` and `u` put the command line in mode
`executing`, in which each instruction of `run()` is a step. A trap is
pending until the handler takes it (`Catch`: back to the prompt) or cli() is
left (`Abort`). `meddled` is a history variable: an instruction read or wrote
bytes under a breakpoint, or two breakpoints overlapped; patching memory cannot
be transparent to such programs, and the properties speak of the others. The
specification the debugger is held to is the machine itself: `Alone` is
`VirtualMachine` with `memory <- Unpatched`, the memory in which the words that
breakpoints replaced are back. Removing and setting breakpoints stutters there.
The machine alone is its memory and `machineButMemory`, without `frames`: the
memory kept in a frame is the one the call found, breakpoints included.
A breakpoint that was hit is not stepped over: `c` and `i` raise the signal
again, which `StopsAtBreakpoints` states as it is.

## Runs

| Run | Properties | What it shows |
| --- | --- | --- |
| `MCImageBuilder` | `TypeOK`, `CursorInSync`, `AlignIsExact`, `ImplementsImage` | any sequence of builder calls, up to five bytes in each segment |
| `MCAssembler` | `TypeOK`, `CursorInSync`, `LinkedImage`, `LabelsNameStatements`, `WordsAligned`, `OperandsDecode`, `PatchInPlace` | sources of up to five statements and labels; every kind of operand, near and far |
| `MCSpaceInText` | violates `EveryImageLinked` | without assertions, `.space` in the text segment is not linked |
| `MCLoads` | violates `LoadsReachLabels` | a data label as the operand of a load |
| `MCJumps` | violates `JumpsReachOffsets` | `j label+i` |
| `MCMacros` | `ExpandsInPlace`, `SeekInvertsTell`, `ImplementsNestedText`, `Termination`, `ReadsOnOrInserts` | calls nested twice, with labels of their own, parameters, `.include`, `.define`, `.dbg` |
| `MCMacroLabel` | violates `ExpandsInPlace` | a body whose last statement is labelled, called from a body |
| `MCKasm` | `AssemblesWhatIsWritten`, `ListingsReassemble`, `FollowsGrammar`, `ActsBetweenTokens`, `Terminates` | about 4000 sources and listings |
| `MCParser` | `MakesWhatIsWritten`, `FollowsGrammar`, `ModeChangesBetweenTokens`, `Terminates` | about 1100 texts in klang |
| `MCCompiler` | `ExitsWithMeaning`, `CallsKeepTemporaries`, `Termination` | about 150 programs, compiled, assembled and executed |
| `MCVirtualMachine` | `TypeOK`, `ComparisonsBranch`, `ReturnsToCaller`, `StringInBuffer`, `Termination` | nine programs: recursion, the four comparing branches, every other instruction, every system call, wild addresses |
| `MCDebugger` | `DebuggerTypeOK`, `UntilHasBreakpoint`, `ProgramUndisturbed`, `StopsAtBreakpoints`, `PromptReturns` | any order of commands, five addresses, two programs |

### Bounds

*Assembler.* The data segment begins at 16 or 128 instead of 0x10010000 and address
fields hold 16 or 64 values instead of 2^26 and 2^16; as in the code the data offset is a
multiple of the range of a branch, so a data label is never within a branch of
the text. Five statements and labels (`MaxStatements`) are enough for a forward
reference from text to a data label behind an unaligned byte (`la x`, `.data`,
`.byte`, `x:`, `.word`), and for two references, one each way, to two labels. Text stays
below the data segment (guard `Fits`); in the program that is 256 MB of code.

*Macros.* Two bodies with one parameter each, one calling the other, and every
source of up to three items that are jumps, labels, calls or an inclusion: enough for
a call inside a call that ends with it, for two calls in a row, for a label that a
body and the source share, and for a jump either way over a call. `Copies` bounds the names that
labels of bodies are given. A regular source keeps to what `MCMacroLabel` and the
code's undefined behaviour leave: no label on a call or on the last statement
of a body, no call on the last line, as many arguments as parameters, no
macro that calls itself, no sole argument that `.define` replaces. Sources that do not
are there as well, to reach the parser's other ends; of them it is claimed that they end.

*Parsers.* For the assembler: every mnemonic with every sequence of up to three
operands of the three kinds (those that are in the README's tables must
assemble to what is there, all others must be refused), every form of an address,
every directive, alone, labelled, commented, between blank lines, and texts that
fail in each way. The largest literal is 127 and a word has 256 values,
so that the two overflows of a literal differ. Listings are of programs of three
instructions, the middle one any instruction with any label in reach, and eight
bytes of data, with five symbol tables, one with a symbol inside a word. For klang: every expression of
two operators with and without parentheses and dereferences, every sequence of up to three of
eight tokens, every statement, nested where nesting could be ambiguous. The
meaning is that of a second parser, written from the grammar's precedences as
a set of readings (`Readings`), with no table.

*Compiler.* Every expression of two operators over small literals and variables,
conditions and loops up to five turns, recursion three deep in the middle of a
sum, calls with three arguments, pointers. Bytes have six bits, words twenty-four.
The meaning is an interpreter of the tree (`Eval`, `Exec`).

*Machine and debugger.* Bytes have four bits, so words sixteen, immediates eight and
every carry, sign extension and wrap of the code happens on small numbers.
Programs are written out, with the offsets that the assembler would store;
recursion is up to three calls deep, enough for a frame between
two others, and its depth comes from the input, so that `ReturnsToCaller` is
about every depth. The system calls get numbers on both sides of every
comparison in `systemCall`. The debugger's five addresses are two
instructions, the middle of one (which overlaps both), a word of data and an address
outside memory; one of the programs stores into its own text. `MaxFiles`
bounds the handles.

### Fairness

Everything is one thread that waits for nothing while it works, so weak fairness
of its own steps is what the code gives: of `Next` for the two parsers and, written out, for
`MacroExpansion`, except in the loop that looks for an `.end` that is not there; of
`Iterate`, the loop of `run()`, for the machine. The debugger's `PromptReturns`
assumes fairness of what happens while a command executes (`Executing`) and none of the
commands: nobody has to type. It is a property of programs that end and make no
system call that throws; both do. A signal, whether of a breakpoint or of an opcode of the
program, has to bring the prompt back. The exception of a system call leaves `cli`, in the model (`Abort`)
as in the code; no document says what should become of the session then, and no property does.

Every property has a mutant in `PROJECT.json`: a definition changed the way a
plausible bug would, under which TLC finds the property violated. The mutants'
definitions stand next to what they replace.

### What the code does and a document does not say

Four disagreements are runs (`MCSpaceInText`, `MCLoads`, `MCJumps`, `MCMacroLabel`).
Others were met while modelling; the models have what the code does:

- `$zero` can be written, though the table of registers has it hard-wired: the `operator[]` that would keep it zero is never
  called, and `addi $zero, $zero, 1` changes it;
- `sra` shifts ones in, whatever the number's sign;
- the table of pseudoinstructions gives `blt` an expansion with `beq`; the code's has `bne`;
  `bgtu` tests greater or equal, in the table as in the code;
- the lexer's rule of a string in the argument list of a call goes on in the rule of the closing
  parenthesis: the character behind the string ends the list, whatever it is, and no argument
  can follow a string. A `)` inside of it does not end the list (`ArgumentList`, `ReadArgument`);
- the table of registers numbers `$t0`-`$t9` 8 to 17 and `$s0`-`$s9` 18 to 27; the code has
  `$t0`-`$t7`, `$s0`-`$s7`, `$t8`, `$t9`, `$k0` and `$k1` in this order (`REGISTER_NAMES`). No
  text of `MCKasm` names one of those that differ;
- the table of instructions gives `bne` the condition `$f != 0`; it compares its two registers;
- the keyword of inline assembler is `asm`, not `kasm`, and its text ends at the first `}`, also
  in a comment or in a literal;
- `label+i` needs a blank before the `+`, and branches take a label alone;
- `li` leaves out its `lui` when the upper half is zero;
- system calls take their code from `$v0` and an exit code from `$a0`, as the
  sample programs do; the table says `$a0` and `$a1`;
- the disassembler prints `v1` without its sign, comparisons as if they had an
  immediate and branches on one register as if on two (`Misprinted`); words
  above `INT_MAX` are listed as literals that the assembler cannot read.
  `ListingsReassemble` says of these that their listing is refused.

## Proofs

For every value of the constants that satisfies their assumptions:

*Builder*

- `TypeCorrect`, `CursorStaysInSync`: `ImageBuilder` keeps `TypeOK` and
  `CursorInSync`. The inductive invariant is `Inv`: the builder is `Sound`
  (well typed, in sync, its text shorter than the data segment's address) and
  its text within the client's bound. Without the bound on the text a write
  in the text segment could carry the cursor over into the data segment.
- `Refinement`: `ImageBuilder` implements `SegmentedImage`. The lemmas of
  `BinaryBuilderProofs` say of each member function which addresses are written
  afterwards and which byte each has (`Puts`, `Extends`); the steps follow from
  those.
- `AlignmentIsExact`: `ImageBuilder`'s `AlignIsExact`, for every alignment and not only powers of two.
  `NextMultiple` is the arithmetic: adding the alignment less the remainder, unless there is none,
  gives a multiple, and the least one.

*Assembler*

- `TypeCorrect` of `LinkingProofs`: `TypeOK` of `Assembler`, by one step per
  action over the builder's lemmas (`WriteUnitPuts`: a unit is one write or two).
- `CounterIsPutPosition`, `EveryProgramIsLinked`, `PatchesInPlace`: the
  assembler's `CursorInSync`, `LinkedImage` and `PatchInPlace`. `LinkedImage`
  says something only of the finished file; the inductive invariant says what is
  true on the way there. `Linking` is: the builder is sound and writes at its
  end until the patch loop begins (`SoundBuilder`, `WritesAtEnd`); every
  unresolved entry lies inside what is written (`TodoFits`) and is a listed unit
  (`EntriesListed`, `ListingPlaced`); **each listed byte either is final, its
  label being defined and its value the one the source asked for, or belongs to an entry that
  the patch loop has still to reach** (`BytesLinked`); what is not listed is zero
  (`GapsAreZero`); the file is what the builder holds (`FileWritten`). When
  the loop has reached every entry, only the first alternative is left. The
  patch loop keeps it because entries are disjoint and a patch has the size of
  its placeholder. The invariant is conditional on `~misplaced`: that is what
  `MCSpaceInText` shows to be necessary.
- `AssertionsLinkEveryImage`: with `KASM_ASSERT` compiled in, that condition
  holds of every program that is written (`AssertionsPlace`), so
  `EveryImageLinked`, which `MCSpaceInText` violates without assertions, holds.
- `LabelsAreAddresses`: the assembler's `LabelsNameStatements`. Labels are defined
  when their statement is reduced, after it has been written, from a location it took
  before; the invariant `Naming` says of each phase what `location` is meanwhile:
  the first address of the statement being written, or the cursor if nothing
  of it has been written (`LocationTaken`), that a label that still waits was the last thing
  read (`PendingUnwritten`), and that numbers of statements only grow
  (`StatementsCounted`), so that nothing is written for a statement after its labels are defined.
- `WordsAreAligned`: the assembler's `WordsAligned`. The code aligns the cursor once per
  `.word`, before the first argument and before the labels take their location. The
  invariant `Aligning` says why once is enough: the text is whole instructions
  (`TextWhole`), so the data that follows it starts on a word; while arguments of a
  `.word` are left, the cursor is aligned and each of them is a word (`TodoAligned`).
  It too is conditional on `~misplaced`: three bytes put into the text would break it.
- `EveryOperandDecodes`: the assembler's `OperandsDecode`. `LinkedImage` says what bytes are in the
  file; what is left is that the four bytes of a word, or the eight of `la`, are all there, listed
  for one unit (`ListedWhole`), that distances taken modulo the width of a
  field and sign extended come back (the arithmetic of `EffectiveAddress`), and that an address of the
  data segment is found in the vector at `IndexOf` it. The grammar gives no offset
  to an operand that is only a label; that is in the type of a unit (`Unit`), without which
  `lw $t0, label` with an offset would be a counterexample. Of jumps it says that they decode to
  their label (`Target`), and not to what `label+i` means (`Meant`): the code never reads that
  offset, as `MCJumps` shows.

*Virtual machine*

- `TypeCorrect` of `DebuggerProofs`: `TypeOK` of `VirtualMachine`, which is inductive as it
  stands, but not for free: a word assembled from four bytes is a word, every result of a bitwise
  operation, a shift, a product or a sign extension has the width of a register, and no system
  call adds or loses a byte of memory. Powers of two and the bits of a
  number are recursive functions; `RecursiveFunctions` states induction and the existence of
  such functions with sets in the place of predicates, which first-order provers can use.
- `ReadStringKeepsToBuffer`: `StringInBuffer`, for every line, size and address, an address at
  the end of the address space included, where the buffer wraps.

*Debugger*

- `DebuggerTyped`: `DebuggerTypeOK`, over the machine's `TypeOK`.
- `UntilIsPatched`: the debugger's `UntilHasBreakpoint`, inductive as it stands.
- `PatchworkHolds`: the invariant that the next two rest on. Unless the program has met a breakpoint
  (`meddled`), every breakpoint is in memory (`Covered`) and no two share a byte
  (`Apart`). `Unpatched` chooses, for a byte, a breakpoint over it; where breakpoints are
  apart there is one to choose, so that taking them out gives one memory (`Restores`).
- `Undisturbed`: `ProgramUndisturbed`, step by step. Where no breakpoint is, memory and
  `Unpatched` agree before and after (`Agree`); each instruction and each system call, fetched,
  reading and writing beside the breakpoints, is the same step on both. A step that reads or writes
  under one sets `meddled`; setting and removing breakpoints leaves `Unpatched` as it is; `Run` is
  a reset of both.
- `Stops`: `StopsAtBreakpoints`. The word at a breakpoint is `BREAK`, which traps.

*Input stream*

- `TokensReadBack`: `MacroExpansion`'s `SeekInvertsTell`, for every set of source files.
  The lexer reads ahead, over entries that end and callbacks that run, and goes back with
  `seekg` to a position it was told; the position is a number and the entry has to be
  found by it. The inductive invariant `EntriesAdjoin` says, of each entry, that it is a
  piece of a file, that it begins where the one before it ends (`Adjoining`) and that the
  file has that much text (`Pieces`); and that the current position is in the current
  entry's file (`Placed`). Then no two entries have a position in common.
- `TextsAreInserted`: `ReadsOnOrInserts`. What is left to read after a step is what was
  left before it without some of its beginning, behind one text of the file table or none.
  The invariant needs for it that from the current entry on every entry runs to the end of
  its file (`Ahead`): an insertion computes the end of the half behind it from the length
  of the file, and so would bring back whatever had been cut off before.

  The recursive functions of the model, over entries and over characters, are treated by
  the lemmas of `RecursiveFunctions`.

  Both are conditional on `~astray`, which that `.dbg` on the last line shows to be
  necessary. `TextAssumption` says that sources, file names and literals are sequences of
  strings; its last two conjuncts are true of any strings, but TLAPS does not derive that
  a literal is one.

*Parsers*

- `ModeChangesInTime`, `ActionsInTime`: `ModeChangesBetweenTokens` of `KlangParser` and
  `ActsBetweenTokens` of `KasmParser`, for every text. An action sees the token after its rule if
  the automaton had to read it to choose the rule. The invariant `Inv` is about the state on top
  of the stack: if a token has been read, that state is none of those that act (`SwitchingStates`,
  `LineStates`). Those states are consistent, that is, they reduce without a token; a shift, which
  consumes the token, may enter them; and a reduction enters them only by the rules of a statement
  and of the end of a line (`LineSymbols`), which are themselves reduced in such states. All of this
  is read off the tables, entry by entry, by the provers.
- `DerivesByGrammar`, of either parser: `FollowsGrammar`, for every text. A reduction knows only
  the number of symbols of its rule; that those on top of the stack are the ones of its right
  side, that they are all there, and that no `$$ = $1` finds the value of something else, is a
  property of the tables. That the automaton of an LR grammar has it is a theorem about its
  construction; here it is shown of the numbers that are compiled, without the construction. The
  proof gives each state one *item* (`itemRule`, `itemDot`): a rule and how much of its right side
  is read when the state is on top. `Follows` says of two states that the second may lie on the
  first: it begins its rule where the left side may begin (`Starts`), or goes on in the rule of
  the first, or in one that the symbol of the first has begun (`Opens`). The inductive invariant
  `Linked` says of every state of the stack that its symbols back to where its rule began are
  those of the right side (`Holds`), that the rule could begin there, and that only the bottom is
  the initial state. A shift and the state that a reduction goes to keep it because the tables
  lead only to a state that follows (`ShiftFollows`, and `GoToFollows` for the state that a
  reduction uncovers). `Completes` and `Complete` say that a state reduces by its item's rule,
  when it has all of it, or by one that begins as that does (`Shares`: `if` and `if`-`else`, a
  call and a definition, `add` with a register and with a literal), or by an empty one. `Sides` is
  the comparison of `rightSides`, the right sides in numbers, with the grammar; `Translated` and
  `Spells` turn numbers into names. The 509 states and 709 entries of the assembler's tables are
  beyond the solver pair by pair: `ShiftFollows` there says first, of each entry, which row owns
  it (`owner`, `EntryOwner`) and then, of each row, in which states it is read.

What TLC checks on its small instances only:

- liveness: `Termination`, `Terminates`, `PromptReturns`;
- what particular programs do: `ReturnsToCaller`, `ComparisonsBranch`, `CallsKeepTemporaries`
  (they hold of programs that follow the conventions, and the instances have such programs);
- what is compared with a meaning that is recursive, or with a second parser: `ExpandsInPlace`,
  `MakesWhatIsWritten`, `AssemblesWhatIsWritten`, `ListingsReassemble`, `ExitsWithMeaning`. They
  would need induction over texts and trees. Of the first two, `DerivesByGrammar` is the part that
  is about the automaton: what is left is which derivation it finds where the grammar is
  ambiguous, what it refuses, and what the actions make of the symbols;
- the refinement of `NestedText`, which `ReadsOnOrInserts` is the part of that is about
  text. The rest is about the marks of calls: a lexer that goes back over the end of a
  macro's text runs the callback of that text again, unless the lexer's mode or a stub
  prevents it, and a proof would have to say in which sources one of them does. The run
  checks it of all of its sources, regular or not.

## Not modelled

The command line (`src/kasm.cpp`) parses arguments and makes one call. Stream errors (a
disk that is full, a file that cannot be opened when a program is written) are left out. So are `prettyPrint`,
`debugPrint`, the output of the system calls that print, and the locations and
messages of both parsers. `.space` takes natural numbers and `.align` exponents that
leave an alignment; a negative size wraps the cursor and an exponent of 32
divides by zero. The generated lexers' automata are modelled by the rules they were
generated from. Nothing is claimed after undefined behaviour.

## What is left

1. `Assembler` driven by what `KasmParser` puts out and by what `MacroExpansion` reads. A run
   goes from a syntax tree through lines and words to the machine
   (`MCCompiler`), with the assembler as one function (`Assembled`); none goes from a text.
2. `.space` with sizes that wrap.
3. File names and macro texts that are spelled alike, which the input stream's table confuses.
4. Proofs: which sources `NestedText` is implemented for; that the callback of a text runs once
   for them; that the parsers refuse nothing that the grammars derive.
