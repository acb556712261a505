------------------------------ MODULE KasmLexer ------------------------------
(***************************************************************************)
(* yy::yylex, the assembler's lexer, on a source in which no identifier is *)
(* a parameter or was .defined: MacroExpansion is about what replaces      *)
(* those.  Keywords are in capitals here: their case makes no difference.  *)
(***************************************************************************)
EXTENDS Lexing

\* Mnemonics, by the macro that assembles them: R is a register, L a literal, A
\* an address, O nothing.
INSTRUCTION_RRR == {"ADD", "ADDU", "AND", "OR", "SLLV", "SLT", "SLTU", "SNE", "SEQ", "SRLV", "SUB", "SUBU",
        "XOR", "NOR"}
INSTRUCTION_RRL == {"ADDI", "ADDIU", "ANDI", "ORI", "SLL", "SLTI", "SLTIU", "SRA", "SRL", "XORI"}
INSTRUCTION_RRA == {"BEQ", "BNE"}
INSTRUCTION_RA == {"BGEZ", "BGEZAL", "BGTZ", "BLEZ", "BLTZ", "BLTZAL", "LB", "LW", "SB", "SW"}
INSTRUCTION_RR == {"DIV", "DIVU", "MULT", "MULTU", "JALR"}
INSTRUCTION_RL == {"LUI"}
INSTRUCTION_R == {"JR", "MFHI", "MFLO"}
INSTRUCTION_A == {"J", "JAL"}
INSTRUCTION_O == {"SYS"}
Pseudoinstructions ==
  {"COPY", "CLR", "B", "BAL", "BGT", "BLT", "BGE", "BLE", "BGTU", "BEQZ", "REM", "LI", "LA",
   "NOP", "NOT", "PUSHW", "POPW", "PUSHB", "POPB", "RET", "CALL", "ENTER"}
Mnemonics ==
  UNION {INSTRUCTION_RRR, INSTRUCTION_RRL, INSTRUCTION_RRA, INSTRUCTION_RA, INSTRUCTION_RR,
         INSTRUCTION_RL, INSTRUCTION_R, INSTRUCTION_A, INSTRUCTION_O, Pseudoinstructions}

Directives ==
  {"TEXT", "DATA", "WORD", "BYTE", "ASCII", "ASCIIZ", "ALIGN", "SPACE", "INCLUDE", "ERROR",
   "MESSAGE", "MACRO", "DBG", "DBGBP", "DEFINE"}

REGISTER_NAMES ==
  [zero |-> 0, at |-> 1, v0 |-> 2, v1 |-> 3, a0 |-> 4, a1 |-> 5, a2 |-> 6, a3 |-> 7,
   t0 |-> 8, t1 |-> 9, t2 |-> 10, t3 |-> 11, t4 |-> 12, t5 |-> 13, t6 |-> 14, t7 |-> 15,
   s0 |-> 16, s1 |-> 17, s2 |-> 18, s3 |-> 19, s4 |-> 20, s5 |-> 21, s6 |-> 22, s7 |-> 23,
   t8 |-> 24, t9 |-> 25, k0 |-> 26, k1 |-> 27, gp |-> 28, sp |-> 29, fp |-> 30, ra |-> 31]
LastRegister == 31

SingleCharacters == {":", ",", "+", "(", ")"}
CommentSign == {"#"}

-----------------------------------------------------------------------------
(***************************************************************************)
(* The rules.                                                              *)
(***************************************************************************)

Directive(text, p) ==
  IF text[p] = "." /\ At(text, p + 1) \in Directives THEN Found(text[p + 1], 0, 2) ELSE NoMatch

Mnemonic(text, p) == IF text[p] \in Mnemonics THEN Found(text[p], 0, 1) ELSE NoMatch

Identifier(text, p) ==
  IF text[p] \in Words \ Mnemonics THEN Found("IDENTIFIER", text[p], 1) ELSE NoMatch

\* By name or by number.
Register(text, p) ==
  LET r == At(text, p + 1)
  IN  CASE text[p] # "$"               -> NoMatch
        [] r \in DOMAIN REGISTER_NAMES -> Found("REGISTER", REGISTER_NAMES[r], 2)
        [] r \in DOMAIN Value          -> IF Value[r] <= LastRegister
                                          THEN Found("REGISTER", Value[r], 2) ELSE NoMatch
        [] OTHER                       -> NoMatch

EndOfLine(text, p) == IF text[p] \in Newline THEN Found("END_OF_LINE", 0, 1) ELSE NoMatch
Space(text, p) == IF text[p] \in Blank THEN Found("continue", 0, 1) ELSE NoMatch
Operator(text, p) == IF text[p] \in SingleCharacters THEN Found(text[p], 0, 1) ELSE NoMatch

\* The rest of the line is skipped, not its end.
Comment(text, p) ==
  IF text[p] \in CommentSign THEN Found("continue", 0, UpTo(text, p, Newline) - p) ELSE NoMatch

\* A character no rule begins with is skipped before it is refused.
Invalid == Thrown(1)

Longest(text, p) ==
  LongestOf(<<Directive(text, p), Mnemonic(text, p), Identifier(text, p), Register(text, p),
              Decimal(text, p), Based(text, p), EscapedCharacter(text, p), Character(text, p),
              StringLiteral(text, p), EndOfLine(text, p), Space(text, p), Comment(text, p),
              Operator(text, p), Invalid>>)

-----------------------------------------------------------------------------
(***************************************************************************)
(* The modes in which the lexer takes what follows as it stands.           *)
(***************************************************************************)

\* lineAsString: up to a comment or the end of the line, which goes back to the
\* input; it may not end the text.
Line(text, p) ==
  LET i == UpTo(text, p, Newline \cup CommentSign)
  IN  IF i >= Len(text) THEN Thrown(Len(text) + 1 - p)
      ELSE Found("STRING", SubSeq(text, p, i - 1), i - p)

\* blockAsString: up to the first .end.  Without one the loop reads the end of the
\* text for ever.
Block(text, p) ==
  LET ends == {i \in p .. Len(text) : text[i] = "." /\ At(text, i + 1) = "END"}
      first == CHOOSE i \in ends : \A j \in ends : i <= j
  IN  IF ends = {} THEN Found("hang", 0, 0)
      ELSE Found("STRING", SubSeq(text, p, first - 1), first + 2 - p)

\* argumentList, as it stands; MacroExpansion is about the arguments in it.  What
\* closes it is a parenthesis, or whatever follows the first string: the rule of
\* strings goes on in that of the parenthesis.
ArgumentList(text, p) ==
  LET i == UpTo(text, p, {")", "\""})
      literal == StringLiteral(text, i)
      hasString == At(text, i) = "\""
      last == IF hasString THEN i + literal.length ELSE i
  IN  IF last >= Len(text) \/ (hasString /\ literal.type = "throw")
      THEN Thrown(Len(text) + 1 - p)
      ELSE Found("ARGUMENT_LIST", SubSeq(text, p, last - 1), last + 1 - p)

\* One turn of yylex's loop.  Blocks do not end a text.
yylex(text, p, flag) ==
  CASE flag = "LINE_AS_STRING"  -> Line(text, p)
    [] flag = "BLOCK_AS_STRING" -> Block(text, p)
    [] flag = "ARGUMENT_LIST"   -> ArgumentList(text, p)
    [] OTHER ->
         IF p > Len(text) THEN Found("END_OF_FILE", 0, 0)
         ELSE CHOOSE turn \in {SkippedTo(text, p, found) : found \in {Longest(text, p)}} : TRUE

=============================================================================
