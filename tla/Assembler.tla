----------------------------- MODULE Assembler -----------------------------
(***************************************************************************)
(* kasm::Assembler: the parser's actions, label definition, address        *)
(* resolution, the patch loop and the writing of the program file.         *)
(*                                                                         *)
(* The source text is a sequence of statements that the environment        *)
(* chooses one at a time.  A statement that writes is a loop over units,   *)
(* one word (two for la) or one byte each; a step of the loop resolves the *)
(* unit's address, or puts it on the list of unresolved addresses, and     *)
(* writes it.  "IDENTIFIER ':' statement" is reduced after the statement   *)
(* has been assembled, so a label is unknown to its own statement.  After  *)
(* the last statement every unresolved address is resolved again and       *)
(* written over its placeholder.                                           *)
(*                                                                         *)
(* A unit is [type, instr, label, offset]: its address type, the literal   *)
(* bits of its word, and the label and offset of its operand.              *)
(***************************************************************************)
EXTENDS BinaryBuilder, Program

CONSTANTS
  Labels,            \* identifiers
  NoLabel,           \* the empty label of an operand without one
  Instructions,      \* what one instruction statement writes: sequences of units
  WordLists,         \* the arguments of a .word directive
  ByteLists,         \* the arguments of .byte, or the bytes of .ascii and .asciiz
  Alignments,        \* 2^X for the X of an .align directive
  Sizes,             \* the X of a .space directive
  AssertionsActive,  \* whether KASM_ASSERT is compiled in
  MaxStatements      \* bound: statements and labels of a source file

LiteralType == {"Literal", "LiteralByte"}

\* The operand of a branch is a label alone.
Unit == { unit \in [type   : AddressType \cup LiteralType,
                    instr  : Instr,
                    label  : Labels \cup {NoLabel},
                    offset : Int] : unit.type = "DirectAddressOffset" => unit.offset = 0 }

ASSUME LabelAssumption == NoLabel \notin Labels

\* What the grammar lets a statement hold.  An address (the operand of j, jal
\* and the loads and stores) may have no label; the others always have one.
ASSUME StatementAssumption ==
  /\ \A units \in Instructions \cup WordLists \cup ByteLists :
       /\ units \in Seq(Unit)
       /\ \A i \in 1 .. Len(units) :
            units[i].type \in AddressType \ {"DirectAddressAbsolute", "IndirectAddressOffset"}
              => units[i].label \in Labels
  /\ \A units \in Instructions : \A i \in 1 .. Len(units) :
       units[i].type \in {"Literal", "DirectAddressAbsolute", "DirectAddressOffset",
                          "IndirectAddressOffset", "DirectAddressAbsoluteLoad"}
  /\ \A units \in WordLists : \A i \in 1 .. Len(units) :
       units[i].type \in {"Literal", "DirectAddressAbsoluteWord"}
  /\ \A units \in ByteLists : \A i \in 1 .. Len(units) :
       units[i].type \in {"LiteralByte", "DirectAddressAbsoluteByte"}
  /\ Alignments \subseteq Nat \ {0}
  /\ Sizes \subseteq Nat
  /\ AssertionsActive \in BOOLEAN
  /\ MaxStatements \in Nat

VARIABLES
  phase,           \* where the parser, or assemble(), is
  count,           \* the statements and labels read so far
  eof,             \* END_OF_FILE has been read
  pending,         \* labels read whose statement is not yet reduced
  location,        \* $$ of the current statement
  todo,            \* the units the current statement has still to write
  binary,          \* the BinaryBuilder
  labelLocations,  \* a function from the labels defined to their locations
  macros,          \* the identifiers .define and .macro have defined
  unresolvedAddressLocations,
  patched,         \* the patch loop's iterator: entries already rewritten
  file             \* the program file, once it is written

\* History variables: what the source asked for, for the properties.
VARIABLES
  listing,         \* address -> the unit, its position, which byte of it, its statement
  owner,           \* label -> the statement it labels
  misplaced        \* a data directive was assembled in the text segment

parserVars == <<phase, count, eof, pending, location, todo>>
history == <<listing, owner, misplaced>>
vars == <<phase, count, eof, pending, location, todo, binary, labelLocations, macros,
          unresolvedAddressLocations, patched, file, listing, owner, misplaced>>

NoFile == [text |-> <<>>, data |-> <<>>, symbols |-> <<>>, exists |-> FALSE]

EmptyFunction == [a \in {} |-> 0]

Init ==
  /\ phase = "statement"
  /\ count = 0
  /\ eof = FALSE
  /\ pending = <<>>
  /\ location = 0
  /\ todo = <<>>
  /\ binary = Open
  /\ labelLocations = EmptyFunction
  /\ macros = {}
  /\ unresolvedAddressLocations = <<>>
  /\ patched = 0
  /\ file = NoFile
  /\ listing = EmptyFunction
  /\ owner = EmptyFunction
  /\ misplaced = FALSE

-----------------------------------------------------------------------------
(***************************************************************************)
(* Address resolution and the bytes of a unit.                             *)
(***************************************************************************)

\* resolveAddress finds what it needs: the label, unless there is none.
Resolvable(unit, locations) ==
  \/ unit.label \in DOMAIN locations
  \/ unit.type = "IndirectAddressOffset" /\ unit.label = NoLabel
  \/ unit.type \in LiteralType

\* Mutant of AddressField: branches are not relative to their position.
AddressFieldAbsolute(unit, position, locations) ==
  IF unit.type \in LiteralType THEN NoField
  ELSE IF unit.label = NoLabel THEN (unit.offset - position) % DIRECT_OFFSET_RANGE
  ELSE IF unit.type \in {"DirectAddressOffset", "IndirectAddressOffset"}
       THEN locations[unit.label] % DIRECT_OFFSET_RANGE
  ELSE IF unit.type = "DirectAddressAbsolute"
       THEN locations[unit.label] % DIRECT_ABSOLUTE_RANGE
  ELSE locations[unit.label]

\* The address field resolveAddress computes for a unit at position.
AddressField(unit, position, locations) ==
  CASE unit.type = "DirectAddressAbsolute" ->
         locations[unit.label] % DIRECT_ABSOLUTE_RANGE
    [] unit.type = "DirectAddressOffset" ->
         (locations[unit.label] - position) % DIRECT_OFFSET_RANGE
    [] unit.type = "IndirectAddressOffset" /\ unit.label = NoLabel ->
         (unit.offset - position) % DIRECT_OFFSET_RANGE
    [] unit.type = "IndirectAddressOffset" /\ unit.label # NoLabel ->
         (locations[unit.label] + unit.offset - position) % DIRECT_OFFSET_RANGE
    [] unit.type \in {"DirectAddressAbsoluteWord", "DirectAddressAbsoluteByte",
                      "DirectAddressAbsoluteLoad"} -> locations[unit.label]
    [] unit.type \in LiteralType -> NoField

FieldOrJunk(unit, position, locations) ==
  IF Resolvable(unit, locations) THEN AddressField(unit, position, locations) ELSE Junk

\* SplitWord.
High(field) == IF field = Junk THEN Junk ELSE field \div IMMEDIATE_RANGE
Low(field)  == IF field = Junk THEN Junk ELSE field % IMMEDIATE_RANGE

IsByte(unit) == unit.type \in {"LiteralByte", "DirectAddressAbsoluteByte"}
IsLoad(unit) == unit.type = "DirectAddressAbsoluteLoad"

Size(unit) == IF IsByte(unit) THEN 1
              ELSE IF IsLoad(unit) THEN 2 * INSTRUCTION_SIZE ELSE INSTRUCTION_SIZE

\* The words a unit is written as: la is lui then ori.
FirstWord(unit, field) ==
  [instr |-> unit.instr, field |-> IF IsLoad(unit) THEN High(field) ELSE field]
SecondWord(unit, field) == [instr |-> unit.instr, field |-> Low(field)]

\* Mutant of WriteUnit: a byte is written as a word.
WriteUnitAsWords(b, unit, field) ==
  IF IsLoad(unit)
  THEN WriteWord(WriteWord(b, WordBytes(FirstWord(unit, field))),
                 WordBytes(SecondWord(unit, field)))
  ELSE WriteWord(b, WordBytes(FirstWord(unit, field)))

WriteUnit(b, unit, field) ==
  IF IsByte(unit) THEN WriteData(b, << <<FirstWord(unit, field), 0>> >>)
  ELSE IF IsLoad(unit)
  THEN WriteWord(WriteWord(b, WordBytes(FirstWord(unit, field))),
                 WordBytes(SecondWord(unit, field)))
  ELSE WriteWord(b, WordBytes(FirstWord(unit, field)))

-----------------------------------------------------------------------------
(***************************************************************************)
(* Statements.                                                             *)
(***************************************************************************)

\* Source files whose text stays below the data segment's address: the
\* cursor cannot grow out of the text segment (two words is the most one
\* unit takes).
Fits(bytes) ==
  GetSegmentType(binary) = "TEXT" => binary.cursor + bytes < DATA_SEGMENT_OFFSET

UnitsFit(units) == Fits(2 * INSTRUCTION_SIZE * Len(units))

ReadStatement ==
  /\ phase = "statement"
  /\ count < MaxStatements
  /\ count' = count + 1

\* A statement that takes effect at once, on the builder only.
Effect(b) ==
  /\ location' = binary.cursor
  /\ binary' = b
  /\ phase' = "reducing"
  /\ UNCHANGED <<eof, pending, todo, labelLocations, macros, unresolvedAddressLocations,
                 patched, file, listing, owner>>

\* Mutant of Begin: $$ is taken before the alignment of .word.
BeginBeforeAlign(b, units) ==
  /\ location' = binary.cursor
  /\ binary' = b
  /\ todo' = units
  /\ phase' = "emitting"
  /\ UNCHANGED <<eof, pending, labelLocations, macros, unresolvedAddressLocations,
                 patched, file, listing, owner>>

\* A statement that writes units, starting with the builder b.
Begin(b, units) ==
  /\ location' = b.cursor
  /\ binary' = b
  /\ todo' = units
  /\ phase' = "emitting"
  /\ UNCHANGED <<eof, pending, labelLocations, macros, unresolvedAddressLocations,
                 patched, file, listing, owner>>

\* KASM_ASSERT stops the assembler; an exception unwinds it.  Neither writes
\* a file.
Stop(how) ==
  /\ phase' = how
  /\ UNCHANGED <<eof, pending, location, todo, binary, labelLocations, macros,
                 unresolvedAddressLocations, patched, file, listing, owner, misplaced>>

\* The data directives assert that they are in the data segment.
AssertData(directive) ==
  IF GetSegmentType(binary) = "DATA"
  THEN directive /\ UNCHANGED misplaced
  ELSE IF AssertionsActive THEN Stop("aborted") ELSE directive /\ misplaced' = TRUE

TextDirective ==
  /\ ReadStatement
  /\ Effect(SetSegmentType(binary, "TEXT"))
  /\ UNCHANGED misplaced

DataDirective ==
  /\ ReadStatement
  /\ Effect(SetSegmentType(binary, "DATA"))
  /\ UNCHANGED misplaced

Instruction(units) ==
  /\ ReadStatement
  /\ UnitsFit(units)
  /\ Begin(binary, units)
  /\ UNCHANGED misplaced

WordDirective(units) ==
  /\ ReadStatement
  /\ Fits(INSTRUCTION_SIZE + 2 * INSTRUCTION_SIZE * Len(units))
  /\ AssertData(Begin(Align(binary, INSTRUCTION_SIZE), units))

ByteDirective(units) ==
  /\ ReadStatement
  /\ UnitsFit(units)
  /\ AssertData(Begin(binary, units))

AlignDirective(alignment) ==
  /\ ReadStatement
  /\ Fits(alignment)
  /\ AssertData(Effect(Align(binary, alignment)))

SpaceDirective(size) ==
  /\ ReadStatement
  /\ Fits(size)
  /\ AssertData(Effect(Pad(binary, size)))

\* .define and .macro: defineMacro throws if the identifier is taken.
DefineMacro(name) ==
  /\ ReadStatement
  /\ IF name \in DOMAIN labelLocations \cup macros
     THEN Stop("failed")
     ELSE /\ macros' = macros \cup {name}
          /\ UNCHANGED <<phase, eof, pending, location, todo, binary, labelLocations,
                         unresolvedAddressLocations, patched, file, history>>

\* The label of "IDENTIFIER ':' statement", before its statement.
LabelPrefix(name) ==
  /\ ReadStatement
  /\ pending' = Append(pending, name)
  /\ UNCHANGED <<phase, eof, location, todo, binary, labelLocations, macros,
                 unresolvedAddressLocations, patched, file, history>>

\* END_OF_FILE is a statement too: it is what the last labels label.
EndOfFile ==
  /\ phase = "statement"
  /\ eof' = TRUE
  /\ location' = binary.cursor
  /\ phase' = "reducing"
  /\ UNCHANGED <<count, pending, todo, binary, labelLocations, macros,
                 unresolvedAddressLocations, patched, file, history>>

\* A syntax error: parse() fails and assemble() returns.  .error throws.
SyntaxError ==
  /\ phase = "statement"
  /\ Stop("aborted")
  /\ UNCHANGED count

ErrorDirective ==
  /\ ReadStatement
  /\ Stop("failed")

-----------------------------------------------------------------------------
(***************************************************************************)
(* The loop over a statement's units, and the reduction of its labels.     *)
(***************************************************************************)

\* The addresses a unit at the cursor occupies get a listing entry each.
List(unit, position) ==
  listing' = [a \in DOMAIN listing \cup position .. (position + Size(unit) - 1) |->
                IF a \in position .. (position + Size(unit) - 1)
                THEN [unit |-> unit, position |-> position,
                      index |-> a - position + 1, statement |-> count]
                ELSE listing[a]]

EmitUnit ==
  /\ phase = "emitting"
  /\ todo # <<>>
  /\ LET unit == Head(todo)
         position == binary.cursor
     IN  /\ binary' = WriteUnit(binary, unit,
                                FieldOrJunk(unit, position, labelLocations))
         /\ unresolvedAddressLocations' =
              IF Resolvable(unit, labelLocations) THEN unresolvedAddressLocations
              ELSE Append(unresolvedAddressLocations,
                          [unit |-> unit, position |-> position])
         /\ List(unit, position)
  /\ todo' = Tail(todo)
  /\ UNCHANGED <<phase, count, eof, pending, location, labelLocations, macros,
                 patched, file, owner, misplaced>>

StatementEnd ==
  /\ phase = "emitting"
  /\ todo = <<>>
  /\ phase' = "reducing"
  /\ UNCHANGED <<count, eof, pending, location, todo, binary, labelLocations, macros,
                 unresolvedAddressLocations, patched, file, history>>

\* The innermost label is reduced first; every label of a statement gets the
\* statement's location.
DefineLabel ==
  /\ phase = "reducing"
  /\ pending # <<>>
  /\ LET name == pending[Len(pending)]
     IN  IF name \in DOMAIN labelLocations \cup macros
         THEN UNCHANGED count /\ Stop("failed")
         ELSE /\ labelLocations' = [l \in DOMAIN labelLocations \cup {name} |->
                                      IF l = name THEN location ELSE labelLocations[l]]
              /\ owner' = [l \in DOMAIN owner \cup {name} |->
                             IF l = name THEN count ELSE owner[l]]
              /\ pending' = SubSeq(pending, 1, Len(pending) - 1)
              /\ UNCHANGED <<phase, count, eof, location, todo, binary, macros,
                             unresolvedAddressLocations, patched, file, listing,
                             misplaced>>

NextStatement ==
  /\ phase = "reducing"
  /\ pending = <<>>
  /\ phase' = IF eof THEN "patching" ELSE "statement"
  /\ UNCHANGED <<count, eof, pending, location, todo, binary, labelLocations, macros,
                 unresolvedAddressLocations, patched, file, history>>

-----------------------------------------------------------------------------
(***************************************************************************)
(* assemble(), after parse(): the patch loop and the program file.         *)
(***************************************************************************)

PatchAddress ==
  /\ phase = "patching"
  /\ patched < Len(unresolvedAddressLocations)
  /\ LET entry == unresolvedAddressLocations[patched + 1]
         b == SetLocation(binary, entry.position)
     IN  IF Resolvable(entry.unit, labelLocations)
         THEN /\ binary' = WriteUnit(b, entry.unit,
                             AddressField(entry.unit, entry.position, labelLocations))
              /\ patched' = patched + 1
              /\ UNCHANGED <<phase, count, eof, pending, location, todo, labelLocations,
                             macros, unresolvedAddressLocations, file, history>>
         ELSE /\ binary' = b
              /\ phase' = "failed"
              /\ UNCHANGED <<count, eof, pending, location, todo, labelLocations, macros,
                             unresolvedAddressLocations, patched, file, history>>

WriteProgram ==
  /\ phase = "patching"
  /\ patched = Len(unresolvedAddressLocations)
  /\ LET b == Align(SetLocationEnd(binary), INSTRUCTION_SIZE)
     IN  /\ binary' = b
         /\ file' = [text |-> Close(b).text, data |-> Close(b).data,
                     symbols |-> labelLocations, exists |-> TRUE]
  /\ phase' = "assembled"
  /\ UNCHANGED <<count, eof, pending, location, todo, labelLocations, macros,
                 unresolvedAddressLocations, patched, history>>

Finished == phase \in {"assembled", "failed", "aborted"}

Done == Finished /\ UNCHANGED vars

Parse ==
  \/ TextDirective
  \/ DataDirective
  \/ \E units \in Instructions : Instruction(units)
  \/ \E units \in WordLists : WordDirective(units)
  \/ \E units \in ByteLists : ByteDirective(units)
  \/ \E alignment \in Alignments : AlignDirective(alignment)
  \/ \E size \in Sizes : SpaceDirective(size)
  \/ \E name \in Labels : DefineMacro(name) \/ LabelPrefix(name)
  \/ EndOfFile
  \/ SyntaxError
  \/ ErrorDirective

Next ==
  \/ Parse
  \/ EmitUnit
  \/ StatementEnd
  \/ DefineLabel
  \/ NextStatement
  \/ PatchAddress
  \/ WriteProgram
  \/ Done

Spec == Init /\ [][Next]_vars

-----------------------------------------------------------------------------
(***************************************************************************)
(* Properties.                                                             *)
(***************************************************************************)

ListingEntry == [unit : Unit, position : Nat, index : 1 .. 2 * INSTRUCTION_SIZE,
                 statement : Nat]

UnresolvedEntry == [unit : Unit, position : Nat]

TypeOK ==
  /\ phase \in {"statement", "emitting", "reducing", "patching",
                "assembled", "failed", "aborted"}
  /\ count \in Nat
  /\ eof \in BOOLEAN
  /\ pending \in Seq(Labels)
  /\ location \in Nat
  /\ todo \in Seq(Unit)
  /\ binary \in Builder
  /\ DOMAIN labelLocations \subseteq Labels
  /\ \A l \in DOMAIN labelLocations : labelLocations[l] \in Nat
  /\ macros \subseteq Labels
  /\ unresolvedAddressLocations \in Seq(UnresolvedEntry)
  /\ patched \in 0 .. Len(unresolvedAddressLocations)
  /\ DOMAIN listing \subseteq Nat
  /\ \A a \in DOMAIN listing : listing[a] \in ListingEntry
  /\ misplaced \in BOOLEAN

\* As long as the data directives stay in the data segment, the put position
\* of the current stream is the location counter that labels and positions
\* are taken from, in the parser's actions and in the patch loop alike.
CursorInSync == ~misplaced => CursorSync(binary)

\* Byte i of a unit whose address field is field.
ByteOfUnit(unit, field, i) ==
  IF i <= INSTRUCTION_SIZE THEN <<FirstWord(unit, field), i - 1>>
  ELSE <<SecondWord(unit, field), i - INSTRUCTION_SIZE - 1>>

\* What the source says the byte at an address is, now that every label is
\* known.
Expected(a) ==
  LET entry == listing[a]
  IN  ByteOfUnit(entry.unit,
                 AddressField(entry.unit, entry.position, labelLocations),
                 entry.index)

FileAddresses ==
  0 .. (Len(file.text) - 1)
    \cup DATA_SEGMENT_OFFSET .. (DATA_SEGMENT_OFFSET + Len(file.data) - 1)

\* The program file, as the virtual machine maps it, holds at every address
\* the byte the source put there, with every label at its final location
\* whether it was defined before its use or after, and zeros in the gaps.
ImageIsLinked ==
  /\ DOMAIN listing \subseteq FileAddresses
  /\ \A a \in FileAddresses :
       IF a \in DOMAIN listing
       THEN Resolvable(listing[a].unit, labelLocations) /\ ByteOf(file, a) = Expected(a)
       ELSE ByteOf(file, a) = ZeroByte

LinkedImage == phase = "assembled" /\ ~misplaced => ImageIsLinked

\* The same of every source file that assembles: a directive outside its
\* segment stops the assembler before it can put a byte where its address is
\* not.  True while KASM_ASSERT is compiled in.  Without it (every build but
\* a debug one) README's ".space X  Move the cursor forward by X bytes" is
\* false in the text segment: the location counter moves, the text does not.
EveryImageLinked == phase = "assembled" => ImageIsLinked

\* A label is the address of the first byte its statement writes: after the
\* alignment of .word, before the first word of a pseudoinstruction.
LabelsNameStatements ==
  ~misplaced =>
    \A l \in DOMAIN labelLocations :
      LET written == {a \in DOMAIN listing : listing[a].statement = owner[l]}
      IN  written # {} =>
            /\ labelLocations[l] \in written
            /\ \A a \in written : labelLocations[l] <= a

\* The addresses of instructions and of the arguments of .word whose operand
\* is a label.
OperandsOf(types) ==
  {a \in DOMAIN listing : listing[a].index = 1 /\ listing[a].unit.type \in types}

FieldInFile(a) == WordOf(file, a)[1][1].field

Target(a) == labelLocations[listing[a].unit.label]

FitsOffset(distance) ==
  /\ -distance <= DIRECT_OFFSET_RANGE \div 2
  /\ distance < DIRECT_OFFSET_RANGE \div 2

\* The address an operand means (README, Addressing Modes), less the contents
\* of its register.
Meant(a) ==
  IF listing[a].unit.label = NoLabel THEN listing[a].unit.offset
  ELSE Target(a) + listing[a].unit.offset

\* What resolveAddress of the virtual machine makes of the instruction at a.
Decoded(a) == EffectiveAddress(listing[a].unit.type, FieldInFile(a), 0, a)

\* The virtual machine decodes the operands back to what they mean, when the
\* bits of the address field can hold it; a jump to its label, as the offset of
\* j label+i is never stored.
OperandsDecode ==
  phase = "assembled" /\ ~misplaced =>
    /\ \A a \in OperandsOf({"DirectAddressAbsolute"}) :
         Target(a) < DIRECT_ABSOLUTE_RANGE => Decoded(a) = Target(a)
    /\ \A a \in OperandsOf({"DirectAddressOffset", "IndirectAddressOffset"}) :
         FitsOffset(Meant(a) - a) => Decoded(a) = Meant(a)
    /\ \A a \in OperandsOf({"DirectAddressAbsoluteLoad"}) :
         FieldInFile(a) * IMMEDIATE_RANGE + FieldInFile(a + INSTRUCTION_SIZE) = Target(a)
    /\ \A a \in OperandsOf({"DirectAddressAbsoluteWord", "DirectAddressAbsoluteByte"}) :
         Memory(file)[IndexOf(file, a) + 1][1].field = Target(a)

\* README, Addressing Modes: "Memory Direct  label  Address of label", for the
\* operand of a load or store, with no bound on how far the label is.  The
\* assembler keeps 16 bits of the distance, and a data label is further.
LoadsReachLabels ==
  phase = "assembled" =>
    \A a \in OperandsOf({"IndirectAddressOffset"}) : Decoded(a) = Meant(a)

\* README, Addressing Modes: "Label + Immediate  label+i  Address of label + i",
\* for the operand of a jump.  resolveAddress never reads its offset.
JumpsReachOffsets ==
  phase = "assembled" =>
    \A a \in OperandsOf({"DirectAddressAbsolute"}) : Decoded(a) = Meant(a)

\* The arguments of .word are word aligned in the vector the virtual machine
\* reads them from, whose data follows the text.
WordsAligned ==
  phase = "assembled" /\ ~misplaced =>
    \A a \in OperandsOf({"DirectAddressAbsoluteWord"}) :
      IndexOf(file, a) % INSTRUCTION_SIZE = 0

\* A step of the patch loop rewrites the bytes of its entry and no other, and
\* neither segment grows.
PatchInPlace ==
  [][ phase = "patching" /\ phase' = "patching" /\ ~misplaced =>
        LET entry == unresolvedAddressLocations[patched + 1]
        IN  /\ Written(binary') = Written(binary)
            /\ \A a \in Written(binary) :
                 ByteAt(binary', a) # ByteAt(binary, a) =>
                   a \in entry.position .. (entry.position + Size(entry.unit) - 1)
    ]_vars

=============================================================================
