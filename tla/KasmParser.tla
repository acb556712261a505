----------------------------- MODULE KasmParser -----------------------------
(***************************************************************************)
(* yy::parser::parse on the text of an assembler source: the automaton of  *)
(* bison's tables, the lexer it calls for a token when it needs one, and   *)
(* the actions of the grammar.                                             *)
(*                                                                         *)
(* One step is one turn of the parser's loop, or of the lexer's.  What the *)
(* actions do to the program, the macros and the input is put out, in      *)
(* order: Assembler and MacroExpansion are about what comes of it.  The    *)
(* text is the input as the stream gives it, so what .include, .dbg and a  *)
(* macro call insert has no place here.                                    *)
(***************************************************************************)
EXTENDS KasmLexer, KasmGrammar

CONSTANTS
  Texts,             \* the texts to parse
  Means(_, _, _),    \* whether a text may end with an outcome and an output
  IMMEDIATE_RANGE    \* 2^IMMEDIATE_BIT

ASSUME ImmediateAssumption ==
  IMMEDIATE_RANGE \in Nat \ {0} /\ WORD_RANGE = IMMEDIATE_RANGE * IMMEDIATE_RANGE

VARIABLES
  text,
  position,       \* of the next unit
  yystack,        \* states and the values of their symbols; the last is the top
  yyla,           \* the look-ahead: <<>> or a token
  flag,
  output,         \* what the actions have done
  outcome         \* "parsing", "accepted", "aborted" (a syntax error), "thrown" or "hung"

vars == <<text, position, yystack, yyla, flag, output, outcome>>

Top == yystack[Len(yystack)].state
Pushed(stack, state, value) == Append(stack, [state |-> state, content |-> value])

Init ==
  /\ text \in Texts
  /\ position = 1
  /\ yystack = Pushed(<<>>, 0, <<>>)
  /\ yyla = <<>>
  /\ flag = "NONE"
  /\ output = <<>>
  /\ outcome = "parsing"

INSTANCE Automaton

NoToken == [type |-> "END_OF_FILE", value |-> 0]
Decided == Decision(Top, IF yyla = <<>> THEN NoToken ELSE yyla[1])

\* The symbol of a state, and those of the n states on top of the stack.
Symbol(state) == Entry(yytname, Entry(yystos, state))
OnTop(n) == [i \in 1 .. n |-> Symbol(yystack[Len(yystack) - n + i].state)]

Parsing  == outcome = "parsing"
Deciding == Parsing /\ Top # yyfinal /\ (Consistent(Top) \/ yyla # <<>>)
Reading  == Parsing /\ Top # yyfinal /\ ~Consistent(Top) /\ yyla = <<>>

-----------------------------------------------------------------------------
(***************************************************************************)
(* Values.                                                                 *)
(***************************************************************************)

ZERO == 0
AT == 1
SP == 29
FP == 30
RA == 31
WORD_BYTES == 4    \* INSTRUCTION_SIZE

\* AddressData, of which a statement's action sets the rest.
NoLabel == ""
Address(label, offset, reg) == [label |-> label, offset |-> offset, reg |-> reg]
Stack == Address(NoLabel, 0, SP)

\* An element of a list of literals.
Item(label, value) == [label |-> label, value |-> value]
Copies(count, item) == [i \in 1 .. count |-> item]

\* The value of a rule's left side, from those of its right side.
Made(rule, v) ==
  CASE rule \in {112, 119, 124} -> v[1]
    [] rule = 113 -> Copies(v[3], Item(NoLabel, v[1]))
    [] rule = 114 -> Copies(v[3], Item(v[1], 0))
    [] rule = 115 -> <<Item(NoLabel, v[1])>>
    [] rule = 116 -> <<Item(v[1], 0)>>
    [] rule = 117 -> Append(v[1], Item(NoLabel, v[3]))
    [] rule = 118 -> Append(v[1], Item(v[3], 0))
    [] rule = 121 -> <<v[1]>>
    [] rule = 122 -> Append(v[1], v[3])
    [] rule = 123 -> Address(v[1], 0, ZERO)
    [] rule = 125 -> Address(v[1], v[3], ZERO)
    [] rule = 126 -> Address(NoLabel, 0, v[2])
    [] rule = 127 -> Address(NoLabel, v[1], v[3])
    [] rule = 128 -> Address(v[1], 0, v[3])
    [] rule = 129 -> Address(v[1], v[3], v[5])
    [] OTHER      -> <<>>    \* statements, mid-rule actions and empty lists

-----------------------------------------------------------------------------
(***************************************************************************)
(* Statements: what a rule's action does, from the values of its right     *)
(* side.                                                                   *)
(***************************************************************************)

\* The mnemonics of rules 36 to 83.
Native ==
  <<"ADD", "ADDI", "ADDIU", "ADDU", "AND", "ANDI", "BEQ", "BGEZ", "BGEZAL", "BGTZ", "BLEZ",
    "BLTZ", "BLTZAL", "BNE", "DIV", "DIVU", "J", "JAL", "JR", "LB", "LUI", "LW", "MFHI", "MFLO",
    "MULT", "MULTU", "OR", "ORI", "SB", "SLL", "SLLV", "SLT", "SLTI", "SLTIU", "SLTU", "SNE",
    "SEQ", "SRA", "SRL", "SRLV", "SUB", "SUBU", "SW", "SYS", "XOR", "XORI", "JALR", "NOR">>
FirstNative == 36
LastNative == FirstNative + Len(Native) - 1

\* What the macros INSTRUCTION_... assemble: a literal keeps its low 16 bits.
Instruction(opcode, operands) ==
  <<opcode>> \o
  (IF opcode \in INSTRUCTION_RRL \cup INSTRUCTION_RL
   THEN [operands EXCEPT ![Len(operands)] = @ % IMMEDIATE_RANGE] ELSE operands)

\* The operands stand before the commas and the end of the line.
Operands(v) == [i \in 1 .. (Len(v) - 1) \div 2 |-> v[2 * i]]

\* la's words: the parts of the address, which may have to wait for it.
LoadAddress(d, address) ==
  LET loaded == [address EXCEPT !.reg = d]
  IN  <<<<"LUI", d, "hi", loaded>>, <<"ORI", d, d, "lo", loaded>>>>

Compared(opcode, a, b, branch, address) ==
  <<Instruction(opcode, <<AT, a, b>>), Instruction(branch, <<AT, ZERO, address>>)>>
Moved(distance) == Instruction("ADDI", <<SP, SP, distance>>)
Pushing(opcode, reg, size) == <<Moved(-size), Instruction(opcode, <<reg, Stack>>)>>

\* Mutant of Popping: the stack moves before the load.
PoppingMoved(opcode, reg, size) == <<Moved(size), Instruction(opcode, <<reg, Stack>>)>>

Popping(opcode, reg, size) == <<Instruction(opcode, <<reg, Stack>>), Moved(size)>>

PushWord(reg) == Pushing("SW", reg, WORD_BYTES)
PopWord(reg)  == Popping("LW", reg, WORD_BYTES)
Copy(d, s)    == Instruction("OR", <<d, s, ZERO>>)

LoadImmediate(d, value) ==
  LET hi == value \div IMMEDIATE_RANGE
      lo == value % IMMEDIATE_RANGE
  IN  IF hi = 0 THEN <<Instruction("ORI", <<d, ZERO, lo>>)>>
      ELSE <<Instruction("LUI", <<d, hi>>), Instruction("ORI", <<d, d, lo>>)>>

Against(reg, literal, branch, address) ==
  <<Instruction("ORI", <<AT, ZERO, literal>>), Instruction(branch, <<reg, AT, address>>)>>

Pseudo(rule, o) ==
  CASE rule = 84  -> <<Copy(o[1], o[2])>>
    [] rule = 85  -> <<Copy(o[1], ZERO)>>
    [] rule = 86  -> <<Instruction("ADDI", o)>>
    [] rule = 87  -> <<Instruction("JALR", <<o[1], RA>>)>>
    [] rule = 88  -> <<Instruction("SLL", <<ZERO, ZERO, 0>>)>>
    [] rule = 89  -> <<Instruction("BEQ", <<ZERO, ZERO, o[1]>>)>>
    [] rule = 90  -> <<Instruction("BGEZAL", <<ZERO, o[1]>>)>>
    [] rule = 91  -> Compared("SLT", o[2], o[1], "BNE", o[3])
    [] rule = 92  -> Compared("SLT", o[1], o[2], "BNE", o[3])
    [] rule = 93  -> Compared("SLT", o[1], o[2], "BEQ", o[3])
    [] rule = 94  -> Compared("SLT", o[2], o[1], "BEQ", o[3])
    [] rule = 95  -> Compared("SLTU", o[1], o[2], "BEQ", o[3])
    [] rule = 96  -> <<Instruction("BEQ", <<o[1], ZERO, o[2]>>)>>
    [] rule = 97  -> Against(o[1], o[2], "BEQ", o[3])
    [] rule = 98  -> Against(o[1], o[2], "BNE", o[3])
    [] rule = 99  -> <<Instruction("MULT", Tail(o)), Instruction("MFLO", <<o[1]>>)>>
    [] rule = 100 -> <<Instruction("DIV", Tail(o)), Instruction("MFLO", <<o[1]>>)>>
    [] rule = 101 -> <<Instruction("DIV", Tail(o)), Instruction("MFHI", <<o[1]>>)>>
    [] rule = 102 -> <<Instruction("NOR", <<o[1], o[2], ZERO>>)>>
    [] rule = 103 -> PushWord(o[1])
    [] rule = 104 -> PopWord(o[1])
    [] rule = 105 -> Pushing("SB", o[1], 1)
    [] rule = 106 -> Popping("LB", o[1], 1)
    [] rule = 107 -> PushWord(RA) \o PushWord(FP) \o <<Copy(FP, SP)>>
    [] rule = 108 -> <<Copy(SP, FP)>> \o PopWord(FP) \o PopWord(RA) \o <<Instruction("JR", <<RA>>)>>
    [] rule = 109 -> <<Instruction("JAL", o)>>
    [] rule = 110 -> LoadImmediate(o[1], o[2])
    [] rule = 111 -> LoadAddress(o[1], o[2])
    [] OTHER      -> <<>>

\* Those of the directives that have their effect at the end of their line.
DirectiveOf ==
  [rule \in {8, 9, 10, 11, 12, 13, 14, 15} |->
     CASE rule = 8  -> "TEXT"  [] rule = 9  -> "DATA"   [] rule = 10 -> "WORD"  [] rule = 11 -> "BYTE"
       [] rule = 12 -> "ASCII" [] rule = 13 -> "ASCIIZ" [] rule = 14 -> "ALIGN" [] rule = 15 -> "SPACE"]

\* The actions in the middle of a rule see what is on the stack: below[i] is
\* yystack_[i].  Those of .include, .message, .dbg and a call follow the end of
\* the line, before the statement they are part of.
Middle(rule, below) ==
  CASE rule = 16 -> <<<<"INCLUDE", below[1]>>>>
    [] rule = 20 -> <<<<"MESSAGE", below[1]>>>>
    [] rule = 22 -> <<<<"DBG", below[1]>>>>
    [] rule = 27 -> <<<<"DEFINE", below[2], below[0]>>>>
    [] rule = 30 -> <<<<"MACRO", below[6], below[4], below[0]>>>>
    [] rule = 34 -> <<<<"CALL", below[5], below[2]>>>>
    [] OTHER     -> <<>>

Effects(rule, v, below) ==
  CASE rule = 5                               -> <<<<"label", v[1]>>>>
    [] rule \in DOMAIN DirectiveOf            -> <<<<DirectiveOf[rule]>> \o Operands(v)>>
    [] rule \in FirstNative .. LastNative     ->
         <<Instruction(Native[rule - FirstNative + 1], Operands(v))>>
    [] rule > LastNative                      -> Pseudo(rule, Operands(v))
    [] OTHER                                  -> Middle(rule, below)

\* The lexer's mode after an action; flag becomes NONE again with the token.
Mode(rule) ==
  CASE rule = 26             -> "LINE_AS_STRING"
    [] rule = 29             -> "BLOCK_AS_STRING"
    [] rule = 32             -> "ARGUMENT_LIST"
    [] rule \in {27, 30, 33} -> "NONE"
    [] OTHER                 -> flag

\* The action of .error.
Throwing(rule) == rule = 18

-----------------------------------------------------------------------------
(***************************************************************************)
(* The steps.                                                              *)
(***************************************************************************)

\* Mutant of Continue: the loop begins again where it was.
ContinueHere(turn) ==
  /\ turn.type = "continue"
  /\ UNCHANGED <<position, yystack, yyla, outcome>>

\* One turn of the lexer: it goes on to the next token, finds it, throws an
\* exception, which leaves parse and assemble, or never leaves its loop.
Continue(turn) ==
  /\ turn.type = "continue"
  /\ position' = position + turn.length
  /\ UNCHANGED <<yystack, yyla, outcome>>

Token(turn) ==
  /\ turn.type \notin {"continue", "throw", "hang"}
  /\ yyla' = <<[type |-> turn.type, value |-> turn.value]>>
  /\ position' = position + turn.length
  /\ UNCHANGED <<yystack, outcome>>

Throws(turn) ==
  /\ turn.type = "throw"
  /\ outcome' = "thrown"
  /\ yystack' = <<yystack[1]>>
  /\ UNCHANGED <<position, yyla>>

Hangs(turn) ==
  /\ turn.type = "hang"
  /\ outcome' = "hung"
  /\ UNCHANGED <<position, yystack, yyla>>

ReadToken ==
  /\ Reading
  /\ \E turn \in {yylex(text, position, flag)} :
       Continue(turn) \/ Token(turn) \/ Throws(turn) \/ Hangs(turn)
  /\ UNCHANGED <<text, flag, output>>

Shift ==
  /\ Deciding
  /\ Decided > 0
  /\ yystack' = Pushed(yystack, Decided, yyla[1].value)
  /\ yyla' = <<>>
  /\ UNCHANGED <<text, position, flag, output, outcome>>

Reduce ==
  /\ Deciding
  /\ Decided < 0
  /\ ~Throwing(-Decided)
  /\ LET rule == -Decided
         length == Entry(yyr2, rule)
         rest == SubSeq(yystack, 1, Len(yystack) - length)
         v == [i \in 1 .. length |-> yystack[Len(rest) + i].content]
         below == [i \in 0 .. Len(yystack) - 1 |-> yystack[Len(yystack) - i].content]
     IN  /\ yystack' = Pushed(rest, GoTo(rest[Len(rest)].state, Entry(yyr1, rule)), Made(rule, v))
         /\ output' = output \o Effects(rule, v, below)
         /\ flag' = Mode(rule)
  /\ UNCHANGED <<text, position, yyla, outcome>>

\* What an action throws leaves parse and assemble as what the lexer throws does.
ReduceThrows ==
  /\ Deciding
  /\ Decided < 0
  /\ Throwing(-Decided)
  /\ outcome' = "thrown"
  /\ yystack' = <<yystack[1]>>
  /\ yyla' = <<>>
  /\ UNCHANGED <<text, position, flag, output>>

\* No rule has the error token: the stack is popped empty and parse returns 1.
SyntaxError ==
  /\ Deciding
  /\ Decided = 0
  /\ outcome' = "aborted"
  /\ yystack' = <<yystack[1]>>
  /\ yyla' = <<>>
  /\ UNCHANGED <<text, position, flag, output>>

Accept ==
  /\ Parsing
  /\ Top = yyfinal
  /\ outcome' = "accepted"
  /\ yystack' = <<yystack[1]>>
  /\ UNCHANGED <<text, position, yyla, flag, output>>

Next == ReadToken \/ Shift \/ Reduce \/ ReduceThrows \/ SyntaxError \/ Accept

\* The parser keeps going.
Spec == Init /\ [][Next]_vars /\ WF_vars(Next)

-----------------------------------------------------------------------------
(***************************************************************************)
(* Properties.                                                             *)
(***************************************************************************)

Ended == ~Parsing

\* The tables bison made and the actions assemble what the README's tables of
\* instructions, pseudoinstructions and directives say each statement is, in
\* the order of the source, and nothing of a statement in any other form.
AssemblesWhatIsWritten ==
  Ended => Means(text, outcome, output)

\* Whatever the text, the parser derives it by the grammar of assembler.yy: what a
\* rule is reduced by is its right side, whole, on top of the stack, what takes its
\* place is its left side, a token is shifted as itself, and at the end there is
\* a program with the end of the text behind it, and nothing below.  So what is
\* accepted is a sequence of statements, and an action finds the values of its
\* rule's symbols, and of no other statement's.
FollowsGrammar ==
  /\ Deciding /\ Decided < 0 =>
       LET rule == -Decided
           length == Entry(yyr2, rule)
           below == yystack[Len(yystack) - length].state
       IN  /\ length < Len(yystack)
           /\ Rule(rule, Symbol(GoTo(below, Entry(yyr1, rule))), OnTop(length)) \in Grammar
  /\ Deciding /\ Decided > 0 => Symbol(Decided) = yyla[1].type
  /\ Parsing /\ Top = yyfinal => Rule(1, "$accept", OnTop(Len(yystack) - 1)) \in Grammar

\* Whatever an action does, it does before the next token is read: a file is
\* inserted before what follows the line that includes it, a label is defined
\* before the next statement may use its name as a macro's, and the lexer's mode
\* is never of a token that has been read already.
ActsBetweenTokens ==
  [][output' # output \/ flag' # flag => yyla = <<>>]_vars

\* The parser comes to an end of every text: it skips, takes or gives back
\* something in each turn.  (A macro without .end has an end of its own, which is
\* the lexer's loop and which only such a text may come to.)
Terminates == <>Ended

=============================================================================
