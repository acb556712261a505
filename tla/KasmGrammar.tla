---------------------------- MODULE KasmGrammar ----------------------------
(***************************************************************************)
(* The grammar of the assembler, as assembler.yy writes it: the rules in   *)
(* bison's order, which is theirs in the file with the actions in the      *)
(* middle of a rule before it, as empty rules of their own.                *)
(***************************************************************************)
EXTENDS KasmTables

Rule(number, left, right) == <<number, left, right>>

\* A statement of a mnemonic and its operands.
Bare(number, mnemonic) ==
  Rule(number, "statement", <<mnemonic, "end_of_statement">>)
Unary(number, mnemonic, a) ==
  Rule(number, "statement", <<mnemonic, a, "end_of_statement">>)
Binary(number, mnemonic, a, b) ==
  Rule(number, "statement", <<mnemonic, a, Comma, b, "end_of_statement">>)
Ternary(number, mnemonic, a, b, c) ==
  Rule(number, "statement", <<mnemonic, a, Comma, b, Comma, c, "end_of_statement">>)

\* What a text is made of, labels and directives.
DirectiveRules ==
  { Rule(1, "$accept", <<"statement_list", "END_OF_FILE">>),
    Rule(2, "statement_list", <<"statement_list", "statement">>),
    Rule(3, "statement_list", <<>>), Rule(4, "$@1", <<>>),
    Rule(5, "statement", <<"IDENTIFIER", ":", "$@1", "statement">>),
    Rule(6, "statement", <<"END_OF_LINE", "statement">>),
    Rule(7, "statement", <<"END_OF_FILE">>),
    Rule(8, "statement", <<"TEXT", "end_of_statement">>),
    Rule(9, "statement", <<"DATA", "end_of_statement">>),
    Rule(10, "statement", <<"WORD", "literal_argument", "end_of_statement">>),
    Rule(11, "statement", <<"BYTE", "literal_argument", "end_of_statement">>),
    Rule(12, "statement", <<"ASCII", "STRING", "end_of_statement">>),
    Rule(13, "statement", <<"ASCIIZ", "STRING", "end_of_statement">>),
    Rule(14, "statement", <<"ALIGN", "LITERAL", "end_of_statement">>),
    Rule(15, "statement", <<"SPACE", "LITERAL", "end_of_statement">>), Rule(16, "$@2", <<>>),
    Rule(17, "statement", <<"INCLUDE", "STRING", "end_of_statement", "$@2", "statement">>),
    Rule(18, "$@3", <<>>),
    Rule(19, "statement", <<"ERROR", "STRING", "end_of_statement", "$@3", "statement">>),
    Rule(20, "$@4", <<>>),
    Rule(21, "statement", <<"MESSAGE", "STRING", "end_of_statement", "$@4", "statement">>),
    Rule(22, "$@5", <<>>),
    Rule(23, "statement", <<"DBG", "STRING", "end_of_statement", "$@5", "statement">>),
    Rule(24, "$@6", <<>>),
    Rule(25, "statement", <<"DBGBP", "end_of_statement", "$@6", "statement">>),
    Rule(26, "$@7", <<>>), Rule(27, "$@8", <<>>),
    Rule(28, "statement",
         <<"DEFINE", "IDENTIFIER", "$@7", "STRING", "$@8", "end_of_statement", "statement">>),
    Rule(29, "$@9", <<>>), Rule(30, "$@10", <<>>),
    Rule(31, "statement",
         <<"MACRO", "IDENTIFIER", "(", "identifier_list", ")", "END_OF_LINE", "$@9", "STRING",
           "$@10", "end_of_statement", "statement">>),
    Rule(32, "$@11", <<>>), Rule(33, "$@12", <<>>), Rule(34, "$@13", <<>>),
    Rule(35, "statement",
         <<"IDENTIFIER", "(", "$@11", "ARGUMENT_LIST", "$@12", "end_of_statement",
           "$@13", "statement">>) }

\* Instructions.
InstructionRules ==
  { Ternary(36, "ADD", "REGISTER", "REGISTER", "REGISTER"),
    Ternary(37, "ADDI", "REGISTER", "REGISTER", "LITERAL"),
    Ternary(38, "ADDIU", "REGISTER", "REGISTER", "LITERAL"),
    Ternary(39, "ADDU", "REGISTER", "REGISTER", "REGISTER"),
    Ternary(40, "AND", "REGISTER", "REGISTER", "REGISTER"),
    Ternary(41, "ANDI", "REGISTER", "REGISTER", "LITERAL"),
    Ternary(42, "BEQ", "REGISTER", "REGISTER", "direct_address"),
    Binary(43, "BGEZ", "REGISTER", "direct_address"),
    Binary(44, "BGEZAL", "REGISTER", "direct_address"),
    Binary(45, "BGTZ", "REGISTER", "direct_address"),
    Binary(46, "BLEZ", "REGISTER", "direct_address"),
    Binary(47, "BLTZ", "REGISTER", "direct_address"),
    Binary(48, "BLTZAL", "REGISTER", "direct_address"),
    Ternary(49, "BNE", "REGISTER", "REGISTER", "direct_address"),
    Binary(50, "DIV", "REGISTER", "REGISTER"), Binary(51, "DIVU", "REGISTER", "REGISTER"),
    Unary(52, "J", "address"), Unary(53, "JAL", "address"), Unary(54, "JR", "REGISTER"),
    Binary(55, "LB", "REGISTER", "address"), Binary(56, "LUI", "REGISTER", "LITERAL"),
    Binary(57, "LW", "REGISTER", "address"), Unary(58, "MFHI", "REGISTER"),
    Unary(59, "MFLO", "REGISTER"), Binary(60, "MULT", "REGISTER", "REGISTER"),
    Binary(61, "MULTU", "REGISTER", "REGISTER"),
    Ternary(62, "OR", "REGISTER", "REGISTER", "REGISTER"),
    Ternary(63, "ORI", "REGISTER", "REGISTER", "LITERAL"),
    Binary(64, "SB", "REGISTER", "address"),
    Ternary(65, "SLL", "REGISTER", "REGISTER", "LITERAL"),
    Ternary(66, "SLLV", "REGISTER", "REGISTER", "REGISTER"),
    Ternary(67, "SLT", "REGISTER", "REGISTER", "REGISTER"),
    Ternary(68, "SLTI", "REGISTER", "REGISTER", "LITERAL"),
    Ternary(69, "SLTIU", "REGISTER", "REGISTER", "LITERAL"),
    Ternary(70, "SLTU", "REGISTER", "REGISTER", "REGISTER"),
    Ternary(71, "SNE", "REGISTER", "REGISTER", "REGISTER"),
    Ternary(72, "SEQ", "REGISTER", "REGISTER", "REGISTER"),
    Ternary(73, "SRA", "REGISTER", "REGISTER", "LITERAL"),
    Ternary(74, "SRL", "REGISTER", "REGISTER", "LITERAL"),
    Ternary(75, "SRLV", "REGISTER", "REGISTER", "REGISTER"),
    Ternary(76, "SUB", "REGISTER", "REGISTER", "REGISTER"),
    Ternary(77, "SUBU", "REGISTER", "REGISTER", "REGISTER"),
    Binary(78, "SW", "REGISTER", "address"), Bare(79, "SYS"),
    Ternary(80, "XOR", "REGISTER", "REGISTER", "REGISTER"),
    Ternary(81, "XORI", "REGISTER", "REGISTER", "LITERAL"),
    Binary(82, "JALR", "REGISTER", "REGISTER"),
    Ternary(83, "NOR", "REGISTER", "REGISTER", "REGISTER") }

\* Pseudoinstructions.
PseudoinstructionRules ==
  { Binary(84, "COPY", "REGISTER", "REGISTER"), Unary(85, "CLR", "REGISTER"),
    Ternary(86, "ADD", "REGISTER", "REGISTER", "LITERAL"), Unary(87, "JALR", "REGISTER"),
    Bare(88, "NOP"), Unary(89, "B", "direct_address"), Unary(90, "BAL", "direct_address"),
    Ternary(91, "BGT", "REGISTER", "REGISTER", "direct_address"),
    Ternary(92, "BLT", "REGISTER", "REGISTER", "direct_address"),
    Ternary(93, "BGE", "REGISTER", "REGISTER", "direct_address"),
    Ternary(94, "BLE", "REGISTER", "REGISTER", "direct_address"),
    Ternary(95, "BGTU", "REGISTER", "REGISTER", "direct_address"),
    Binary(96, "BEQZ", "REGISTER", "direct_address"),
    Ternary(97, "BEQ", "REGISTER", "LITERAL", "direct_address"),
    Ternary(98, "BNE", "REGISTER", "LITERAL", "direct_address"),
    Ternary(99, "MULT", "REGISTER", "REGISTER", "REGISTER"),
    Ternary(100, "DIV", "REGISTER", "REGISTER", "REGISTER"),
    Ternary(101, "REM", "REGISTER", "REGISTER", "REGISTER"),
    Binary(102, "NOT", "REGISTER", "REGISTER"), Unary(103, "PUSHW", "REGISTER"),
    Unary(104, "POPW", "REGISTER"), Unary(105, "PUSHB", "REGISTER"),
    Unary(106, "POPB", "REGISTER"), Bare(107, "ENTER"), Bare(108, "RET"),
    Unary(109, "CALL", "direct_address"), Binary(110, "LI", "REGISTER", "LITERAL"),
    Binary(111, "LA", "REGISTER", "direct_address") }

\* What statements are made of.
PartRules ==
  { Rule(112, "literal_argument", <<"literal_list">>),
    Rule(113, "literal_argument", <<"LITERAL", ":", "LITERAL">>),
    Rule(114, "literal_argument", <<"IDENTIFIER", ":", "LITERAL">>),
    Rule(115, "literal_list", <<"LITERAL">>), Rule(116, "literal_list", <<"IDENTIFIER">>),
    Rule(117, "literal_list", <<"literal_list", Comma, "LITERAL">>),
    Rule(118, "literal_list", <<"literal_list", Comma, "IDENTIFIER">>),
    Rule(119, "identifier_list", <<"identifier_list_not_empty">>),
    Rule(120, "identifier_list", <<>>),
    Rule(121, "identifier_list_not_empty", <<"IDENTIFIER">>),
    Rule(122, "identifier_list_not_empty", <<"identifier_list", Comma, "IDENTIFIER">>),
    Rule(123, "direct_address", <<"IDENTIFIER">>), Rule(124, "address", <<"direct_address">>),
    Rule(125, "address", <<"IDENTIFIER", "+", "LITERAL">>),
    Rule(126, "address", <<"(", "REGISTER", ")">>),
    Rule(127, "address", <<"LITERAL", "(", "REGISTER", ")">>),
    Rule(128, "address", <<"IDENTIFIER", "(", "REGISTER", ")">>),
    Rule(129, "address", <<"IDENTIFIER", "+", "LITERAL", "(", "REGISTER", ")">>),
    Rule(130, "end_of_statement", <<"END_OF_LINE">>),
    Rule(131, "end_of_statement", <<"END_OF_FILE">>) }

Grammar == DirectiveRules \cup InstructionRules \cup PseudoinstructionRules \cup PartRules

=============================================================================
