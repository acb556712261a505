---------------------------- MODULE KlangGrammar ----------------------------
(***************************************************************************)
(* The grammar of klang, as compiler.yy writes it: the rules in bison's    *)
(* order, which is theirs in the file with the actions in the middle of a  *)
(* rule before it, as empty rules of their own.  The precedences, which    *)
(* only choose between the derivations, are left out.                      *)
(***************************************************************************)
EXTENDS KlangTables

Rule(number, left, right) == <<number, left, right>>
Infix(rule, operator) == Rule(rule, "expression", <<"expression", operator, "expression">>)

Grammar ==
  { Rule(1, "$accept", <<"program", "END_OF_FILE">>),
    Rule(2, "program", <<>>),
    Rule(3, "program", <<"program", "statement">>),
    Rule(4, "program", <<"program", "function_definition">>),
    Rule(5, "statement", <<Semicolon>>),
    Rule(6, "statement", <<"expression", Semicolon>>),
    Rule(7, "statement", <<"RETURN", "expression", Semicolon>>),
    Rule(8, "$@1", <<>>),
    Rule(9, "$@2", <<>>),
    Rule(10, "statement", <<"ASM", OpenBrace, "$@1", "STRING", "$@2", Semicolon>>),
    Rule(11, "statement", <<OpenBrace, "compound_statement", CloseBrace>>),
    Rule(12, "statement", <<"IF", "(", "expression", ")", "statement">>),
    Rule(13, "statement", <<"IF", "(", "expression", ")", "statement", "ELSE", "statement">>),
    Rule(14, "statement", <<"WHILE", "(", "expression", ")", "statement">>),
    Rule(15, "statement",
         <<"FOR", "(", "expression_or_nothing", Semicolon, "expression_or_nothing", Semicolon,
           "expression_or_nothing", ")", "statement">>),
    Rule(16, "statement", <<"DO", "statement", "WHILE", "(", "expression", ")", Semicolon>>),
    Rule(17, "compound_statement", <<>>),
    Rule(18, "compound_statement", <<"compound_statement", "statement">>),
    Infix(19, "+"),
    Infix(20, "%"),
    Infix(21, "="),
    Rule(22, "expression", <<"identifier", "(", "expression_or_nothing", ")">>),
    Rule(23, "expression", <<"(", "expression", ")">>),
    Infix(24, Comma),
    Rule(25, "expression", <<"identifier", ":", "type">>),
    Infix(26, "=="),
    Infix(27, "<="),
    Infix(28, "&&"),
    Rule(29, "expression", <<"&", "expression">>),
    Rule(30, "expression", <<"@", "expression">>),
    Rule(31, "expression", <<"literal">>),
    Rule(32, "expression", <<"identifier">>),
    Rule(33, "expression", <<"string_literal">>),
    Rule(34, "expression_or_nothing", <<>>),
    Rule(35, "expression_or_nothing", <<"expression">>),
    Rule(36, "function_definition",
         <<"identifier", "(", "expression_or_nothing", ")", ":", "type", OpenBrace,
           "compound_statement", CloseBrace>>),
    Rule(37, "type", <<"TYPE">>),
    Rule(38, "identifier", <<"IDENTIFIER">>),
    Rule(39, "literal", <<"LITERAL">>),
    Rule(40, "string_literal", <<"STRING">>) }

=============================================================================
