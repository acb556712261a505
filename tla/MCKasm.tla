------------------------------- MODULE MCKasm -------------------------------
(***************************************************************************)
(* Sources and what the README's tables say they are: every mnemonic with  *)
(* every sequence of up to three registers, literals and labels, of which  *)
(* some are a statement and the others are not; every form of an address;  *)
(* the directives, with labels, comments and blank lines between them.     *)
(***************************************************************************)
EXTENDS KasmParser, Disassembler, TLC
LOCAL INSTANCE SequencesExt

-----------------------------------------------------------------------------
(***************************************************************************)
(* Operands: a kind, the units that spell it and its value.                *)
(***************************************************************************)

Operand(kind, units, value) == [kind |-> kind, units |-> units, value |-> value]
RegisterAt == << Operand("R", <<"$", "t0">>, 8), Operand("R", <<"$", "3">>, 3),
                 Operand("R", <<"$", "ra">>, 31) >>
LiteralAt == << Operand("L", <<"7">>, 7), Operand("L", <<"100">>, 100),
                Operand("L", <<"-", "7">>, WORD_RANGE - 7) >>
LabelAt == [i \in 1 .. 3 |-> Operand("A", <<"x">>, Address("x", 0, ZERO))]

OperandsOf(n) == [1 .. n -> {"R", "L", "A"}]
Spelled(kinds) ==
  [i \in DOMAIN kinds |-> CASE kinds[i] = "R" -> RegisterAt[i] [] kinds[i] = "L" -> LiteralAt[i]
                            [] OTHER -> LabelAt[i]]

\* Addresses that are more than a label.
Addresses ==
  { Operand("M", <<"x", " ", "+", " ", "7">>, Address("x", 7, ZERO)),
    Operand("M", <<"(", "$", "t0", ")">>, Address(NoLabel, 0, 8)),
    Operand("M", <<"7", "(", "$", "sp", ")">>, Address(NoLabel, 7, SP)),
    Operand("M", <<"-", "7", "(", "$", "sp", ")">>, Address(NoLabel, WORD_RANGE - 7, SP)),
    Operand("M", <<"x", "(", "$", "t0", ")">>, Address("x", 0, 8)),
    Operand("M", <<"x", " ", "+", " ", "7", "(", "$", "t0", ")">>, Address("x", 7, 8)) }

-----------------------------------------------------------------------------
(***************************************************************************)
(* The README's tables: the instructions a mnemonic stands for with        *)
(* operands of some kinds, <<>> if it has no such form.  (The table's row  *)
(* of blt branches as the one of bge does; li of a literal with no high    *)
(* half leaves out its lui.)                                               *)
(***************************************************************************)

Row(m, k, o) ==
  CASE m \in INSTRUCTION_RRR /\ k = <<"R", "R", "R">> -> <<<<m>> \o o>>
    [] m \in INSTRUCTION_RRL /\ k = <<"R", "R", "L">> -> <<<<m, o[1], o[2], o[3] % IMMEDIATE_RANGE>>>>
    [] m \in INSTRUCTION_RRA /\ k = <<"R", "R", "A">> -> <<<<m>> \o o>>
    [] m \in INSTRUCTION_RA  /\ k = <<"R", "A">>      -> <<<<m>> \o o>>
    [] m \in INSTRUCTION_RR  /\ k = <<"R", "R">>      -> <<<<m>> \o o>>
    [] m \in INSTRUCTION_RL  /\ k = <<"R", "L">>      -> <<<<m, o[1], o[2] % IMMEDIATE_RANGE>>>>
    [] m \in INSTRUCTION_R   /\ k = <<"R">>           -> <<<<m>> \o o>>
    [] m \in INSTRUCTION_A   /\ k = <<"A">>           -> <<<<m>> \o o>>
    [] m \in INSTRUCTION_O   /\ k = <<>>              -> <<<<m>>>>
    [] m \in {"LB", "LW", "SB", "SW"} /\ k = <<"R", "M">> -> <<<<m>> \o o>>
    [] m \in INSTRUCTION_A   /\ k = <<"M">>           -> <<<<m>> \o o>>
    [] OTHER -> <<>>

RowOfRegisters(m, o) ==
  CASE m = "COPY"  /\ Len(o) = 2 -> <<<<"OR", o[1], o[2], ZERO>>>>
    [] m = "CLR"   /\ Len(o) = 1 -> <<<<"OR", o[1], ZERO, ZERO>>>>
    [] m = "JALR"  /\ Len(o) = 1 -> <<<<"JALR", o[1], RA>>>>
    [] m = "MULT"  /\ Len(o) = 3 -> <<<<"MULT", o[2], o[3]>>, <<"MFLO", o[1]>>>>
    [] m = "DIV"   /\ Len(o) = 3 -> <<<<"DIV", o[2], o[3]>>, <<"MFLO", o[1]>>>>
    [] m = "REM"   /\ Len(o) = 3 -> <<<<"DIV", o[2], o[3]>>, <<"MFHI", o[1]>>>>
    [] m = "NOT"   /\ Len(o) = 2 -> <<<<"NOR", o[1], o[2], ZERO>>>>
    [] m = "PUSHW" /\ Len(o) = 1 -> <<<<"ADDI", SP, SP, -4 % 16>>, <<"SW", o[1], Stack>>>>
    [] m = "POPW"  /\ Len(o) = 1 -> <<<<"LW", o[1], Stack>>, <<"ADDI", SP, SP, 4>>>>
    [] m = "PUSHB" /\ Len(o) = 1 -> <<<<"ADDI", SP, SP, -1 % 16>>, <<"SB", o[1], Stack>>>>
    [] m = "POPB"  /\ Len(o) = 1 -> <<<<"LB", o[1], Stack>>, <<"ADDI", SP, SP, 1>>>>
    [] m = "NOP"   /\ o = <<>>   -> <<<<"SLL", ZERO, ZERO, 0>>>>
    [] m = "ENTER" /\ o = <<>>   ->
         << <<"ADDI", SP, SP, -4 % 16>>, <<"SW", RA, Stack>>, <<"ADDI", SP, SP, -4 % 16>>,
            <<"SW", FP, Stack>>, <<"OR", FP, SP, ZERO>> >>
    [] m = "RET"   /\ o = <<>>   ->
         << <<"OR", SP, FP, ZERO>>, <<"LW", FP, Stack>>, <<"ADDI", SP, SP, 4>>,
            <<"LW", RA, Stack>>, <<"ADDI", SP, SP, 4>>, <<"JR", RA>> >>
    [] OTHER -> <<>>

RowOfBranches(m, o) ==
  CASE m = "BGT"  -> <<<<"SLT", AT, o[2], o[1]>>, <<"BNE", AT, ZERO, o[3]>>>>
    [] m = "BLT"  -> <<<<"SLT", AT, o[1], o[2]>>, <<"BNE", AT, ZERO, o[3]>>>>
    [] m = "BGE"  -> <<<<"SLT", AT, o[1], o[2]>>, <<"BEQ", AT, ZERO, o[3]>>>>
    [] m = "BLE"  -> <<<<"SLT", AT, o[2], o[1]>>, <<"BEQ", AT, ZERO, o[3]>>>>
    [] m = "BGTU" -> <<<<"SLTU", AT, o[1], o[2]>>, <<"BEQ", AT, ZERO, o[3]>>>>
    [] OTHER -> <<>>

PseudoRow(m, k, o) ==
  CASE k \in {<<>>, <<"R">>, <<"R", "R">>, <<"R", "R", "R">>} -> RowOfRegisters(m, o)
    [] k = <<"R", "R", "A">>               -> RowOfBranches(m, o)
    [] m = "ADD" /\ k = <<"R", "R", "L">>  -> <<<<"ADDI", o[1], o[2], o[3] % IMMEDIATE_RANGE>>>>
    [] m = "B"    /\ k = <<"A">>           -> <<<<"BEQ", ZERO, ZERO, o[1]>>>>
    [] m = "BAL"  /\ k = <<"A">>           -> <<<<"BGEZAL", ZERO, o[1]>>>>
    [] m = "CALL" /\ k = <<"A">>           -> <<<<"JAL", o[1]>>>>
    [] m = "BEQZ" /\ k = <<"R", "A">>      -> <<<<"BEQ", o[1], ZERO, o[2]>>>>
    [] m \in {"BEQ", "BNE"} /\ k = <<"R", "L", "A">> ->
         <<<<"ORI", AT, ZERO, o[2] % IMMEDIATE_RANGE>>, <<m, o[1], AT, o[3]>>>>
    [] m = "LI"   /\ k = <<"R", "L">>      ->
         IF o[2] < IMMEDIATE_RANGE THEN <<<<"ORI", o[1], ZERO, o[2]>>>>
         ELSE <<<<"LUI", o[1], o[2] \div 16>>, <<"ORI", o[1], o[1], o[2] % 16>>>>
    [] m = "LA"   /\ k = <<"R", "A">>      ->
         LET a == [o[2] EXCEPT !.reg = o[1]]
         IN  <<<<"LUI", o[1], "hi", a>>, <<"ORI", o[1], o[1], "lo", a>>>>
    [] OTHER -> <<>>

Instructions(m, operands) ==
  LET k == [i \in DOMAIN operands |-> operands[i].kind]
      o == [i \in DOMAIN operands |-> operands[i].value]
  IN  IF Row(m, k, o) # <<>> THEN Row(m, k, o) ELSE PseudoRow(m, k, o)

LineOf(m, operands) ==
  <<m, " ">> \o FlattenSeq([i \in DOMAIN operands |->
                    (IF i = 1 THEN <<>> ELSE <<",", " ">>) \o operands[i].units]) \o <<"\n">>

-----------------------------------------------------------------------------
(***************************************************************************)
(* Sources.                                                                *)
(***************************************************************************)

\* Lines and what they put out.
Lines(units, done) == [units |-> units, output |-> done]
Joined(parts) == Lines(FlattenSeq([i \in DOMAIN parts |-> parts[i].units]),
                       FlattenSeq([i \in DOMAIN parts |-> parts[i].output]))
StatementOf(m, operands) == Lines(LineOf(m, operands), Instructions(m, operands))
Silent(units) == Lines(units, <<>>)
Labelled(label, statement) ==
  Lines(<<label, ":">> \o statement.units, Append(statement.output, <<"label", label>>))
Directed(name, units, operands) ==
  Lines(<<".", name>> \o units \o <<"\n">>, <<<<name>> \o operands>>)

Attempts == {<<m, Spelled(k)>> : m \in Mnemonics, k \in UNION {OperandsOf(n) : n \in 0 .. 3}}
WithAddresses ==
  {<<m, <<a>>>> : m \in Mnemonics, a \in Addresses}
  \cup {<<m, <<RegisterAt[1], a>>>> : m \in Mnemonics, a \in Addresses}
  \cup {<<m, <<RegisterAt[1], RegisterAt[2], a>>>> : m \in INSTRUCTION_RRA, a \in Addresses}
Tried == Attempts \cup WithAddresses
Good(attempt) == Instructions(attempt[1], attempt[2]) # <<>>

S1 == StatementOf("NOP", <<>>)
S2 == StatementOf("JR", <<RegisterAt[3]>>)

One == Item(NoLabel, 7)
String(units) == <<"\"">> \o units \o <<"\"">>
Quote(units) == <<" ">> \o String(units)
CallOf(arguments, close) ==
  Lines(<<"f", "(">> \o arguments \o close \o <<"\n">>, <<<<"CALL", "f", arguments>>>>)
Closed ==
  { Directed("TEXT", <<>>, <<>>), Directed("DATA", <<>>, <<>>),
    Directed("WORD", <<" ", "7">>, <<<<One>>>>),
    Directed("WORD", <<" ", "7", ":", "3">>, <<<<One, One, One>>>>),
    Directed("WORD", <<" ", "x", ":", "2">>, <<<<Item("x", 0), Item("x", 0)>>>>),
    Directed("BYTE", <<" ", "x", ",", "7", ",", "x">>, <<<<Item("x", 0), One, Item("x", 0)>>>>),
    Directed("BYTE", <<" ", "'", "x", "'">>, <<<<Item(NoLabel, 120)>>>>),
    Directed("ASCII", Quote(<<"x", " ", "#">>), <<<<"x", " ", "#">>>>),
    Directed("ASCIIZ", Quote(<<>>), <<<<>>>>),
    Directed("ALIGN", <<" ", "2">>, <<2>>), Directed("SPACE", <<" ", "3">>, <<3>>) }

\* These take the statement after them as a part of their own.
Leading ==
  { Directed("INCLUDE", Quote(<<"f">>), <<<<"f">>>>), Directed("MESSAGE", Quote(<<"f">>), <<<<"f">>>>),
    Directed("DBG", Quote(<<"f">>), <<<<"f">>>>), Silent(<<".", "DBGBP", "\n">>),
    Directed("DEFINE", <<" ", "f", " ", "x", " ", "7">>, <<"f", <<" ", "x", " ", "7">>>>),
    Directed("MACRO", <<" ", "f", "(", ")", "\n", ".", "END">>, <<"f", <<>>, <<>>>>),
    Directed("MACRO", <<" ", "f", "(", "x", ",", "y", ")", "\n", "x", "\n", ".", "END">>,
             <<"f", <<"x", "y">>, <<"x", "\n">>>>),
    CallOf(<<"x", ",", "7">>, <<")">>), CallOf(<<"x", ",">> \o String(<<"y", ")">>), <<")">>),
    \* behind a string anything is taken for the parenthesis
    CallOf(String(<<"x">>), <<",">>), CallOf(String(<<"x">>), <<"\n", "#">>),
    Silent(<<"\n">>), Silent(<<"#", "x", "(", "\n">>) }

Right(source) == [text |-> source.units, outcome |-> "accepted", output |-> source.output]
Wrong(source, units, end) ==
  [text |-> source.units \o units, outcome |-> end, output |-> source.output]

WrongLines ==
  { <<"x", " ", "NOP", "\n">>, <<"x", "+", "7", "\n">>,     <<"NOP", " ", "NOP", "\n">>, <<".", "WORD", "\n">>, <<".", "WORD", " ", "7", ",", "\n">>,
    <<".", "WORD", " ", "7", ",", "x", ":", "2", "\n">>, <<".", "ASCII", " ", "x", "\n">>,
    <<".", "MACRO", " ", "f", "\n">>, <<".", "DEFINE", "\n">>,
    \* the comma closes the list
    <<"f", "(">> \o String(<<"x">>) \o <<",", "7", ")", "\n">>,
    \* a sign and a numeral in a row are a literal: no "label+i" without blanks
    <<"LW", " ", "$", "t0", ",", "x", "+", "7", "\n">> }

ThrownLines ==
  { <<"%", "\n">>, <<".", "x", "\n">>, <<".", "END", "\n">>, <<"$", "x", "\n">>, <<"$", "100", "\n">>, <<"ADDI", " ", "200", "\n">>,
    <<"'", "x", "\n">>, <<"\"", "x", "\n">>, <<"f", "(", "x">>,
    <<"f", "(", "\"", "x", "\n">>, <<"f", "(", "\"", "x", "\"", ")">>, <<".", "DEFINE", " ", "f", " ", "x">>,
    <<".", "ERROR">> \o Quote(<<"x">>) \o <<"\n">> }

Statements == {StatementOf(a[1], a[2]) : a \in {a \in Tried : Good(a)}}

Samples ==
  {Right(s) : s \in Statements} \cup {Right(Joined(<<S1, s, S2>>)) : s \in Statements}
  \cup {Right(Joined(<<S1, d, S2>>)) : d \in Closed \cup Leading}
  \cup {Right(Joined(<<Labelled("x", d), S2>>)) : d \in Closed}
  \cup {Right(Joined(<<Labelled("x", Joined(<<p, S1>>)), S2>>)) : p \in Leading}
  \cup {Right(Joined(<<Labelled("x", Joined(<<p, Labelled("y", Joined(<<q, S1>>))>>)), S2>>)) :
           p \in Leading, q \in Leading}
  \cup {Wrong(S1, units, "aborted") : units \in WrongLines}
  \cup {Wrong(S1, units, "thrown") : units \in ThrownLines}
  \cup { Right(Silent(<<>>)), Right(Silent(<<"\n">>)), Right(Labelled("x", Silent(<<"\n">>))),
         Right(Joined(<<S1, Labelled("x", Labelled("y", Silent(<<"\n">>)))>>)),
         Wrong(S1, <<".", "MACRO", " ", "f", "(", ")", "\n", "x", "\n">>, "hung"),
         \* the last token is lost with the text that ends in it
         Wrong(S1, <<"x", ":">>, "aborted"), Wrong(S1, <<"JR", " ", "$", "t0">>, "aborted") }

\* The lines that are no sample are no statements.
MeaningOf(t) ==
  LET samples == {sample \in Samples : sample.text = t}
  IN  IF samples # {} THEN CHOOSE sample \in samples : TRUE ELSE Wrong(Silent(<<>>), t, "aborted")

-----------------------------------------------------------------------------
(***************************************************************************)
(* Listings of programs with an instruction between two others.            *)
(***************************************************************************)

Decoded(opcode, immediate, absolute, distance) ==
  [ opcode |-> opcode, register0 |-> 8, register1 |-> 29, register2 |-> 31,
    immediate |-> immediate, directAddressAbsolute |-> absolute, directAddressOffset |-> distance ]

\* The location of the instruction, and those it may name: each has a label.
Here == 4
Near == {0, Here, 8}
Aligned == Near \cup {DATA_SEGMENT_OFFSET, DATA_SEGMENT_OFFSET + 4}
InData == DATA_SEGMENT_OFFSET + 1

\* Those the assembler reads otherwise than they are listed: comparisons as if
\* they had an immediate, branches on one register as if on two.
Misprinted ==
  {"SLT", "SLTU", "SNE", "SEQ", "BGEZ", "BGEZAL", "BGTZ", "BLEZ", "BLTZ", "BLTZAL"}

Addressing == FormatOf.DAA \cup FormatOf.RIDA \cup {"BEQ", "BNE"}
Plain == {Decoded(op, 5, 0, 0) : op \in OpcodesListed \ (Misprinted \cup Addressing)}
Naming ==
  {Decoded(op, 0, l, 0) : op \in FormatOf.DAA, l \in Near}
  \cup {Decoded(op, 0, 0, l - Here) : op \in {"BEQ", "BNE"}, l \in Near}
  \cup {Decoded(op, 0, 0, l - Here) : op \in FormatOf.RIDA, l \in Aligned}
  \cup {[Decoded("LW", 0, 0, l - Here) EXCEPT !.register1 = 0] : l \in Aligned \ Near}
Ends == Decoded("JR", 0, 0, 0)

SymbolTables ==
  { <<>>, 0 :> "x", (Here :> "x") @@ (8 :> "y"), DATA_SEGMENT_OFFSET :> "x",
    (DATA_SEGMENT_OFFSET :> "x") @@ (InData :> "y") }

Program(end, code, data, symbols) ==
  [ text |-> code, data |-> data, symbols |-> symbols, end |-> end,
    listing |-> disassemble(code, data, symbols) ]
Data8 == <<1, 2, 0, 1, 3, 0, 0, 0>>
Whole(d, symbols) == Program("accepted", <<Ends, d, Ends>>, Data8, symbols)
Unreadable(d, symbols) == Program("aborted", <<d>>, <<>>, symbols)

\* Programs, with their symbols; among them those whose listing is no source: the
\* instructions of Misprinted, $v1, a location that is not a word's, one with a
\* symbol in the text and no register to add, a word whose highest bit is set.
Programs ==
  {Whole(d, <<>>) : d \in Plain} \cup {Whole(d, symbols) : d \in Naming, symbols \in SymbolTables}
  \cup {Unreadable(Decoded(op, 5, 0, 0), <<>>) : op \in Misprinted}
  \cup { Unreadable([Ends EXCEPT !.register0 = 3], <<>>), Unreadable(Decoded("LB", 0, 0, 1), <<>>),
         Unreadable([Decoded("LB", 0, 0, 0) EXCEPT !.register1 = 0], 0 :> "x"),
         Program("thrown", <<>>, <<0, 0, 0, 3>>, <<>>) }

\* What the assembler makes of a listing: where its labels are, and its statements.
Length(statement) ==
  CASE statement[1] = "WORD" -> 4 * Len(statement[2])
    [] statement[1] = "BYTE" -> Len(statement[2])
    [] statement[1] \in {"TEXT", "DATA", "label"} -> 0
    [] OTHER -> 4
IsData(statement) == statement[1] \in {"WORD", "BYTE"}
Before(done, i) == SelectSeq(SubSeq(done, 1, i - 1), LAMBDA s : IsData(s) <=> IsData(done[i]))
LocationOf(done, i) ==
  (IF IsData(done[i]) THEN DATA_SEGMENT_OFFSET ELSE 0)
  + FoldLeft(LAMBDA sum, s : sum + Length(s), 0, Before(done, i))
Statement(done, i) == CHOOSE j \in 1 .. i : done[j][1] # "label" /\ \A k \in j + 1 .. i : done[k][1] = "label"
LabelLocations(done, label) ==
  {LocationOf(done, Statement(done, i)) : i \in {i \in DOMAIN done : done[i] = <<"label", label>>}}

Resolves(done, address, location) ==
  IF address.label = NoLabel THEN address.offset = location
  ELSE LabelLocations(done, address.label) = {location - address.offset}

SameInstruction(done, statement, d, pc) ==
  LET o == Tail(statement)
      op == d.opcode
      at == (d.directAddressOffset + pc) % LOCATION_RANGE
  IN  /\ statement[1] = op
      /\ CASE op \in INSTRUCTION_RRR -> o = <<d.register0, d.register1, d.register2>>
           [] op \in INSTRUCTION_RRL -> o = <<d.register0, d.register1, d.immediate>>
           [] op \in INSTRUCTION_RRA -> /\ SubSeq(o, 1, 2) = <<d.register0, d.register1>>
                                        /\ Resolves(done, o[3], at)
           [] op \in INSTRUCTION_RR  -> o = <<d.register0, d.register1>>
           [] op \in INSTRUCTION_RL  -> o = <<d.register0, d.immediate>>
           [] op \in INSTRUCTION_RA  -> /\ o[1] = d.register0
                                        /\ o[2].reg = d.register1
                                        /\ Resolves(done, o[2], at)
           [] op \in INSTRUCTION_R   -> o = <<d.register0>>
           [] op \in INSTRUCTION_A   -> Resolves(done, o[1], d.directAddressAbsolute)
           [] OTHER -> o = <<>>

BytesOf(value) == [i \in 1 .. 4 |-> (value \div (CASE i = 1 -> 1 [] i = 2 -> 4 [] i = 3 -> 16 [] i = 4 -> 64)) % 4]
BytesWritten(statement) ==
  FlattenSeq([i \in DOMAIN statement[2] |->
                IF statement[1] = "BYTE" THEN <<statement[2][i].value>> ELSE BytesOf(statement[2][i].value)])

Reassembles(program, done) ==
  LET statements == SelectSeq(done, LAMBDA s : Length(s) > 0)
      code == SelectSeq(statements, LAMBDA s : ~IsData(s))
      data == SelectSeq(statements, IsData)
  IN  /\ Len(code) = Len(program.text)
      /\ \A i \in DOMAIN code : SameInstruction(done, code[i], program.text[i], 4 * (i - 1))
      /\ FlattenSeq([i \in DOMAIN data |-> BytesWritten(data[i])]) = program.data
      /\ \A l \in DOMAIN program.symbols : LabelLocations(done, program.symbols[l]) = {l}

\* The texts with labels the disassembler makes.
IsListing(t) == \E i \in DOMAIN t : t[i] \in {LocationWord(0), LocationWord(DATA_SEGMENT_OFFSET)}

\* What the disassembler lists of a program, with its symbols, is a source the
\* assembler makes the same program of: the same instructions, in which every
\* label is at the same distance or location, and the same data.  (The programs
\* whose listing is no source end as such.)
ListingsReassemble ==
  Ended /\ IsListing(text) =>
    \E program \in Programs :
      /\ program.listing = text
      /\ outcome = program.end
      /\ outcome = "accepted" => Reassembles(program, output)

-----------------------------------------------------------------------------
(***************************************************************************)
(* The texts of the run.                                                   *)
(***************************************************************************)

MCTexts ==
  {sample.text : sample \in Samples} \cup {LineOf(a[1], a[2]) : a \in Tried}
  \cup {program.listing : program \in Programs}

\* ListingsReassemble is about the listings.
MCMeans(t, end, done) ==
  \/ IsListing(t)
  \/ end = MeaningOf(t).outcome /\ done = MeaningOf(t).output

-----------------------------------------------------------------------------
MCHexWord(n) == "x" \o ToString(n)
MCLocationWord(n) == "_" \o ToString(n)
MCNumbers == 0 .. 12 \cup {73, 192}
MCWords ==
  {"x", "y", "f", "v1"} \cup {MCLocationWord(l) : l \in Aligned \cup DATA_SEGMENT_OFFSET .. InData + 2}
MCValue == ("1" :> 1) @@ ("2" :> 2) @@ ("3" :> 3) @@ ("7" :> 7) @@ ("100" :> 100) @@ ("200" :> 200)
MCEscapedCode == ("n" :> 10) @@ ("\\" :> 92) @@ ("'" :> 39) @@ ("\"" :> 34)
MCCode == MCEscapedCode @@ ("x" :> 120) @@ (" " :> 32) @@ ("\n" :> 10)
MCBinaryValue == "b101" :> 5
MCHexValue == [w \in {MCHexWord(n) : n \in MCNumbers} |-> CHOOSE n \in MCNumbers : MCHexWord(n) = w]

=============================================================================
