---------------------------- MODULE KlangTables ----------------------------
(***************************************************************************)
(* The tables of klang's parser, as bison made them of the grammar in      *)
(* compiler.yy.  The first element of a sequence is the one of index 0.    *)
(***************************************************************************)
EXTENDS Integers, Sequences

\* The element of an index.
Entry(table, i) == table[i + 1]

yypact_ninf == -40
yytable_ninf == -1
yyfinal == 2
yylast == 255
yyntokens == 34

\* Characters that are tokens of their own.
Comma      == ","
Semicolon  == ";"
OpenBrace  == "{"
CloseBrace == "}"

\* The symbols' names: the tokens, in the order of their numbers, and what the rules
\* make of them.  A character that is in no rule has the third.
yytname ==
  <<"END_OF_FILE", "error", "$undefined", "RETURN", "INCLUDE", "ASM", "WHILE", "IF", "ELSE",
    "FOR", "DO", "==", "<=", "&&", "IDENTIFIER", "STRING", "LITERAL", "TYPE", Comma, "=", ":", "+",
    "-", "*", "/", "%", "~", Semicolon, OpenBrace, CloseBrace, "(", ")", "&", "@",
    "$accept", "program", "statement", "$@1", "$@2", "compound_statement", "expression", "expression_or_nothing",
    "function_definition", "type", "identifier", "literal", "string_literal">>
yytranslate(type) ==
  LET numbers == {i \in 1 .. yyntokens : yytname[i] = type}
  IN  IF numbers = {} THEN 2 ELSE (CHOOSE i \in numbers : TRUE) - 1

yypact ==
  <<-40, 44, -40, 148, -27, -25, -17, -10, 141, -40, -40, -40, -40, -40, 148, 148, 148, -40,
    208, -40, -18, -40, -40, 219, -12, -40, 148, 148, 148, 15, 79, 164, 230, 230, 148, 148, 148,
    148, 148, 148, 148, -40, 5, 148, -40, 148, 9, 175, 186, 230, 2, -5, -40, -40, -40, 111, 111,
    89, 230, -2, 6, -40, -40, -40, 1, 10, -40, 141, 141, 148, 148, 13, -40, 19, -40, 40, 25,
    197, 5, -40, 141, 148, 28, 29, -40, 30, -40, -40, 141, 110, -40, -40>>
yydefact ==
  <<2, 0, 1, 0, 0, 0, 0, 0, 0, 38, 40, 39, 5, 17, 0, 0, 0, 3, 0, 4, 32, 31, 33, 0, 32, 8, 0, 0,
    34, 0, 0, 0, 29, 30, 0, 0, 0, 0, 0, 0, 0, 6, 0, 34, 7, 34, 0, 0, 0, 35, 0, 0, 11, 18, 23,
    26, 27, 28, 24, 21, 19, 20, 37, 25, 0, 0, 9, 0, 0, 34, 0, 22, 22, 0, 14, 12, 0, 0, 0, 10, 0,
    34, 0, 0, 13, 0, 16, 17, 0, 0, 15, 36>>
yypgoto ==
  <<-40, -40, -1, -40, -40, -31, 0, -39, -40, -16, 62, -40, -40>>
yydefgoto ==
  <<-1, 1, 53, 46, 73, 30, 18, 50, 19, 63, 24, 21, 22>>
yytable ==
  <<17, 25, 42, 23, 64, 26, 65, 29, 42, 34, 35, 36, 43, 27, 31, 32, 33, 38, 45, 39, 28, 51, 62,
    40, 66, 70, 47, 48, 49, 69, 76, 40, 71, 78, 55, 56, 57, 58, 59, 60, 61, 72, 85, 49, 2, 49,
    79, 3, 80, 4, 5, 6, 81, 7, 8, 86, 89, 87, 9, 10, 11, 88, 83, 20, 0, 0, 74, 75, 0, 49, 77,
    12, 13, 0, 14, 0, 15, 16, 0, 84, 0, 49, 3, 0, 4, 5, 6, 90, 7, 8, 0, 0, 0, 9, 10, 11, 0, 0,
    0, 0, 34, 35, 36, 0, 0, 0, 12, 13, 52, 14, 39, 15, 16, 3, 40, 4, 5, 6, 0, 7, 8, 0, 34, 35,
    9, 10, 11, 0, 0, 0, 0, 0, 39, 0, 0, 0, 40, 12, 13, 91, 14, 0, 15, 16, 3, 0, 4, 5, 6, 0, 7,
    8, 0, 0, 0, 9, 10, 11, 0, 0, 0, 0, 9, 10, 11, 0, 0, 0, 12, 13, 0, 14, 0, 15, 16, 34, 35, 36,
    14, 0, 15, 16, 37, 38, 0, 39, 34, 35, 36, 40, 0, 0, 0, 37, 38, 54, 39, 34, 35, 36, 40, 0, 0,
    0, 37, 38, 67, 39, 34, 35, 36, 40, 0, 0, 0, 37, 38, 68, 39, 34, 35, 36, 40, 0, 0, 0, 37, 38,
    82, 39, 34, 35, 36, 40, 0, 41, 0, 37, 38, 0, 39, 34, 35, 36, 40, 0, 44, 0, 37, 38, 0, 39, 0,
    0, 0, 40>>
yycheck ==
  <<1, 28, 20, 3, 43, 30, 45, 8, 20, 11, 12, 13, 30, 30, 14, 15, 16, 19, 30, 21, 30, 6, 17, 25,
    15, 30, 26, 27, 28, 27, 69, 25, 31, 20, 34, 35, 36, 37, 38, 39, 40, 31, 81, 43, 0, 45, 27,
    3, 8, 5, 6, 7, 27, 9, 10, 27, 87, 28, 14, 15, 16, 31, 78, 1, -1, -1, 67, 68, -1, 69, 70, 27,
    28, -1, 30, -1, 32, 33, -1, 80, -1, 81, 3, -1, 5, 6, 7, 88, 9, 10, -1, -1, -1, 14, 15, 16,
    -1, -1, -1, -1, 11, 12, 13, -1, -1, -1, 27, 28, 29, 30, 21, 32, 33, 3, 25, 5, 6, 7, -1, 9,
    10, -1, 11, 12, 14, 15, 16, -1, -1, -1, -1, -1, 21, -1, -1, -1, 25, 27, 28, 29, 30, -1, 32,
    33, 3, -1, 5, 6, 7, -1, 9, 10, -1, -1, -1, 14, 15, 16, -1, -1, -1, -1, 14, 15, 16, -1, -1,
    -1, 27, 28, -1, 30, -1, 32, 33, 11, 12, 13, 30, -1, 32, 33, 18, 19, -1, 21, 11, 12, 13, 25,
    -1, -1, -1, 18, 19, 31, 21, 11, 12, 13, 25, -1, -1, -1, 18, 19, 31, 21, 11, 12, 13, 25, -1,
    -1, -1, 18, 19, 31, 21, 11, 12, 13, 25, -1, -1, -1, 18, 19, 31, 21, 11, 12, 13, 25, -1, 27,
    -1, 18, 19, -1, 21, 11, 12, 13, 25, -1, 27, -1, 18, 19, -1, 21, -1, -1, -1, 25>>
\* The symbol each state was reached by.
yystos ==
  <<0, 35, 0, 3, 5, 6, 7, 9, 10, 14, 15, 16, 27, 28, 30, 32, 33, 36, 40, 42, 44, 45, 46, 40, 44,
    28, 30, 30, 30, 36, 39, 40, 40, 40, 11, 12, 13, 18, 19, 21, 25, 27, 20, 30, 27, 30, 37, 40,
    40, 40, 41, 6, 29, 36, 31, 40, 40, 40, 40, 40, 40, 40, 17, 43, 41, 41, 15, 31, 31, 27, 30, 31,
    31, 38, 36, 36, 41, 40, 20, 27, 8, 27, 31, 43, 36, 41, 27, 28, 31, 39, 36, 29>>
yyr1 ==
  <<0, 34, 35, 35, 35, 36, 36, 36, 37, 38, 36, 36, 36, 36, 36, 36, 36, 39, 39, 40, 40, 40, 40,
    40, 40, 40, 40, 40, 40, 40, 40, 40, 40, 40, 41, 41, 42, 43, 44, 45, 46>>
yyr2 ==
  <<0, 2, 0, 2, 2, 1, 2, 3, 0, 0, 6, 3, 5, 7, 5, 9, 7, 0, 2, 3, 3, 3, 4, 3, 3, 3, 3, 3, 3, 2, 2,
    1, 1, 1, 0, 1, 9, 1, 1, 1, 1>>

=============================================================================
