-------------------------- MODULE KasmParserProofs --------------------------
(***************************************************************************)
(* Why the assembler's actions keep the order of the source, whatever the  *)
(* text, and why the automaton of the tables derives it by the grammar of  *)
(* assembler.yy: what the tables say of each state, and what they make the *)
(* stack be.                                                               *)
(***************************************************************************)
EXTENDS KasmParser, TLAPS

States == 0 .. 508
Rules == 2 .. 131

\* The rules of a statement, the actions in the middle of one, and the end of
\* a line: none needs the token that follows.
LineRules == 5 .. 111 \cup {130, 131}
LineStates == {s \in States : Entry(yydefact, s) \in LineRules}

\* The left sides of the rules that lead to a state that reduces by one.
LineSymbols == {101, 121}

-----------------------------------------------------------------------------
(***************************************************************************)
(* The tables.                                                             *)
(***************************************************************************)

LEMMA RuleOfState ==
  ASSUME NEW s \in States
  PROVE  Entry(yydefact, s) \in Rules \cup {0}
BY SMTT(30) DEF States, Rules, Entry, yydefact

LEMMA SymbolOfRule ==
  ASSUME NEW rule \in Rules
  PROVE  /\ Entry(yyr1, rule) \in 100 .. 121 /\ Entry(yyr2, rule) \in Nat
         /\ Entry(yyr1, rule) \in LineSymbols => rule \in LineRules
BY SMTT(30) DEF Rules, Entry, yyr1, yyr2, LineSymbols, LineRules

LEMMA TableTyped == \A i \in 0 .. yylast : Entry(yytable, i) \in States
BY DEF States, Entry, yytable, yylast

\* A state that acts does so before a token is read.
LEMMA LineConsistent == \A s \in LineStates : Consistent(s)
<1>1. ASSUME NEW s \in States, Entry(yypact, s) # yypact_ninf
      PROVE  Entry(yydefact, s) \in {0, 112, 115, 116, 120, 123, 125}
  BY <1>1, SMTT(60) DEF States, Entry, yydefact, yypact, yypact_ninf
<1> QED BY <1>1 DEF LineStates, LineRules, Consistent

\* What is done in a state: a shift, an error, or a reduction.
LEMMA DecisionTyped ==
  ASSUME NEW s \in States, NEW token
  PROVE  LET d == Decision(s, token) IN
         \/ d \in States
         \/ d = -Entry(yydefact, s)
<1> DEFINE symbol == yytranslate(token.type)
           i == Entry(yypact, s) + symbol
<1> HIDE DEF symbol
<1>1. i \in 0 .. yylast => Entry(yytable, i) \in States
  BY TableTyped
<1> HIDE DEF i
<1> QED BY <1>1 DEF Decision, i, symbol, States

LEMMA DecidedTyped ==
  ASSUME Top \in States
  PROVE  /\ Decided > 0 => Decided \in States
         /\ Decided < 0 => -Decided \in Rules /\ -Decided = Entry(yydefact, Top)
<1> DEFINE token == IF yyla = <<>> THEN NoToken ELSE yyla[1]
           d == Entry(yydefact, Top)
<1> HIDE DEF token
<1>1. Decided \in States \/ Decided = -d
  BY DecisionTyped DEF Decided, token
<1>2. d \in Rules \cup {0}
  BY RuleOfState
<1> HIDE DEF d
<1>3. /\ Decided > 0 => Decided \in States
      /\ Decided < 0 => -Decided \in Rules /\ -Decided = d
  BY SMTT(30), <1>1, <1>2 DEF States, Rules
<1> QED BY <1>3 DEF d

\* Only a statement and the end of a line lead, when they are reduced, to a state
\* that acts.
LEMMA GoToTyped ==
  ASSUME NEW s, NEW symbol \in 100 .. 121
  PROVE  /\ GoTo(s, symbol) \in States
         /\ GoTo(s, symbol) \in LineStates => symbol \in LineSymbols
<1> DEFINE g == Entry(yypgoto, symbol - yyntokens)
           i == g + s
           Others == {Entry(yypgoto, k - yyntokens) : k \in 100 .. 121 \ LineSymbols}
<1>1. /\ Entry(yydefgoto, symbol - yyntokens) \in States
      /\ Entry(yydefgoto, symbol - yyntokens) \in LineStates => symbol \in LineSymbols
  BY SMTT(30) DEF yyntokens, Entry, yydefgoto, yydefact, States, LineStates, LineRules, LineSymbols
<1>2. ASSUME i \in 0 .. yylast, Entry(yycheck, i) = s
      PROVE  /\ Entry(yytable, i) \in States
             /\ Entry(yytable, i) \in LineStates => symbol \in LineSymbols
  <2>1. ASSUME NEW k \in 0 .. yylast, k - Entry(yycheck, k) \in Others
        PROVE  Entry(yytable, k) \notin LineStates
    <3>1. Others \subseteq {-83, -30, -20, 360}
      BY DEF yyntokens, Entry, yypgoto, LineSymbols
    <3> HIDE DEF Others
    <3>2. k - Entry(yycheck, k) \in {-83, -30, -20, 360}
      BY <2>1, <3>1
    <3>3. Entry(yytable, k) \in
            {103, 136, 170, 171, 188, 302, 303, 304, 305, 306, 307, 316, 318, 323, 338, 348, 351,
             432, 433, 434, 435, 457, 458, 459, 460, 461}
      BY SMTT(30), <3>2 DEF yylast, Entry, yytable, yycheck
    <3> QED BY <3>3 DEF LineStates, LineRules, Entry, yydefact, States
  <2>2. g \in Int /\ (symbol \in LineSymbols \/ g \in Others)
    BY DEF yyntokens, Entry, yypgoto
  <2>3. \A k \in 0 .. yylast : Entry(yycheck, k) \in Int
    BY DEF yylast, Entry, yycheck
  <2> HIDE DEF Others, g
  <2>4. i - Entry(yycheck, i) = g
    BY <1>2, <2>2, <2>3
  <2> HIDE DEF i
  <2> QED BY <1>2, <2>1, <2>2, <2>4, TableTyped
<1> HIDE DEF i, g
<1> QED BY <1>1, <1>2 DEF GoTo, i, g

-----------------------------------------------------------------------------
(***************************************************************************)
(* Items: how far the parser is, in a state, in which rule.  Of the rules  *)
(* a state may be in, its item is the one it is farthest in, or one of     *)
(* those; the others begin with the symbol of the state, or as that one    *)
(* does.                                                                   *)
(***************************************************************************)

itemRule ==
  <<1, 1, 1, 6, 5, 8, 9, 10, 11, 12, 13, 14, 15, 17, 19, 21, 31, 23, 28, 25, 36, 37, 38, 39, 40,
    41, 42, 43, 44, 45, 46, 47, 48, 49, 50, 51, 52, 53, 54, 55, 56, 57, 58, 59, 60, 61, 62, 63,
    64, 65, 66, 83, 67, 68, 69, 70, 71, 72, 73, 74, 75, 76, 77, 78, 79, 80, 81, 82, 84, 85, 89,
    90, 91, 92, 93, 94, 95, 96, 101, 110, 111, 88, 102, 103, 104, 105, 106, 108, 109, 107, 2, 7,
    6, 5, 35, 131, 130, 8, 9, 114, 113, 10, 112, 11, 12, 13, 14, 15, 17, 19, 21, 31, 23, 28, 25,
    36, 37, 38, 39, 40, 41, 42, 43, 44, 45, 46, 47, 48, 49, 50, 51, 125, 127, 126, 124, 52, 53,
    54, 55, 56, 57, 58, 59, 60, 61, 62, 63, 64, 65, 66, 83, 67, 68, 69, 70, 71, 72, 73, 74, 75,
    76, 77, 78, 79, 80, 81, 82, 84, 85, 123, 89, 90, 91, 92, 93, 94, 95, 96, 101, 110, 111, 88,
    102, 103, 104, 105, 106, 108, 109, 107, 5, 35, 114, 113, 10, 117, 11, 12, 13, 14, 15, 17, 19,
    21, 31, 23, 28, 25, 36, 37, 38, 39, 40, 41, 42, 43, 44, 45, 46, 47, 48, 49, 50, 51, 128, 125,
    127, 126, 52, 53, 54, 55, 56, 57, 58, 59, 60, 61, 62, 63, 64, 65, 66, 83, 67, 68, 69, 70, 71,
    72, 73, 74, 75, 76, 77, 78, 80, 81, 82, 87, 84, 85, 89, 90, 91, 92, 93, 94, 95, 96, 101, 110,
    111, 102, 103, 104, 105, 106, 109, 5, 35, 114, 113, 118, 117, 17, 19, 21, 121, 31, 119, 23,
    28, 25, 36, 37, 38, 39, 40, 41, 97, 42, 43, 44, 45, 46, 47, 48, 98, 49, 50, 51, 128, 125, 127,
    126, 55, 56, 57, 60, 61, 62, 63, 64, 65, 66, 83, 67, 68, 69, 70, 71, 72, 73, 74, 75, 76, 77,
    78, 80, 81, 82, 84, 91, 92, 93, 94, 95, 96, 101, 110, 111, 102, 35, 17, 19, 21, 31, 122, 23,
    28, 36, 37, 38, 39, 40, 41, 97, 42, 43, 44, 45, 46, 47, 48, 98, 49, 100, 50, 51, 128, 129,
    127, 55, 56, 57, 99, 60, 61, 62, 63, 64, 65, 66, 83, 67, 68, 69, 70, 71, 72, 73, 74, 75, 76,
    77, 78, 80, 81, 82, 84, 91, 92, 93, 94, 95, 96, 101, 110, 111, 102, 35, 31, 122, 28, 86, 36,
    37, 38, 39, 40, 41, 97, 42, 98, 49, 100, 129, 99, 62, 63, 65, 66, 83, 67, 68, 69, 70, 71, 72,
    73, 74, 75, 76, 77, 80, 81, 91, 92, 93, 94, 95, 101, 35, 31, 28, 86, 36, 37, 38, 39, 40, 41,
    97, 42, 98, 49, 100, 129, 99, 62, 63, 65, 66, 83, 67, 68, 69, 70, 71, 72, 73, 74, 75, 76, 77,
    80, 81, 91, 92, 93, 94, 95, 101, 35, 31, 31, 31, 31>>
itemDot ==
  <<0, 1, 2, 1, 1, 1, 1, 1, 1, 1, 1, 1, 1, 1, 1, 1, 1, 1, 1, 1, 1, 1, 1, 1, 1, 1, 1, 1, 1, 1, 1,
    1, 1, 1, 1, 1, 1, 1, 1, 1, 1, 1, 1, 1, 1, 1, 1, 1, 1, 1, 1, 1, 1, 1, 1, 1, 1, 1, 1, 1, 1, 1,
    1, 1, 1, 1, 1, 1, 1, 1, 1, 1, 1, 1, 1, 1, 1, 1, 1, 1, 1, 1, 1, 1, 1, 1, 1, 1, 1, 1, 2, 1, 2,
    2, 2, 1, 1, 2, 2, 1, 1, 2, 1, 2, 2, 2, 2, 2, 2, 2, 2, 2, 2, 2, 2, 2, 2, 2, 2, 2, 2, 2, 2, 2,
    2, 2, 2, 2, 2, 2, 2, 1, 1, 1, 1, 2, 2, 2, 2, 2, 2, 2, 2, 2, 2, 2, 2, 2, 2, 2, 2, 2, 2, 2, 2,
    2, 2, 2, 2, 2, 2, 2, 2, 2, 2, 2, 2, 2, 2, 1, 2, 2, 2, 2, 2, 2, 2, 2, 2, 2, 2, 2, 2, 2, 2, 2,
    2, 2, 2, 2, 3, 3, 2, 2, 3, 2, 3, 3, 3, 3, 3, 3, 3, 3, 3, 3, 3, 3, 3, 3, 3, 3, 3, 3, 3, 3, 3,
    3, 3, 3, 3, 3, 3, 3, 2, 2, 2, 2, 3, 3, 3, 3, 3, 3, 3, 3, 3, 3, 3, 3, 3, 3, 3, 3, 3, 3, 3, 3,
    3, 3, 3, 3, 3, 3, 3, 3, 3, 3, 3, 3, 3, 3, 3, 3, 3, 3, 3, 3, 3, 3, 3, 3, 3, 3, 3, 3, 3, 3, 3,
    4, 4, 3, 3, 3, 3, 4, 4, 4, 1, 4, 1, 4, 4, 4, 4, 4, 4, 4, 4, 4, 4, 4, 4, 4, 4, 4, 4, 4, 4, 4,
    4, 4, 3, 3, 3, 3, 4, 4, 4, 4, 4, 4, 4, 4, 4, 4, 4, 4, 4, 4, 4, 4, 4, 4, 4, 4, 4, 4, 4, 4, 4,
    4, 4, 4, 4, 4, 4, 4, 4, 4, 4, 4, 4, 5, 5, 5, 5, 5, 2, 5, 5, 5, 5, 5, 5, 5, 5, 5, 5, 5, 5, 5,
    5, 5, 5, 5, 5, 5, 5, 5, 4, 4, 4, 5, 5, 5, 5, 5, 5, 5, 5, 5, 5, 5, 5, 5, 5, 5, 5, 5, 5, 5, 5,
    5, 5, 5, 5, 5, 5, 5, 5, 5, 5, 5, 5, 5, 5, 5, 5, 5, 5, 6, 6, 3, 6, 6, 6, 6, 6, 6, 6, 6, 6, 6,
    6, 6, 6, 5, 6, 6, 6, 6, 6, 6, 6, 6, 6, 6, 6, 6, 6, 6, 6, 6, 6, 6, 6, 6, 6, 6, 6, 6, 6, 7, 7,
    7, 7, 7, 7, 7, 7, 7, 7, 7, 7, 7, 7, 7, 6, 7, 7, 7, 7, 7, 7, 7, 7, 7, 7, 7, 7, 7, 7, 7, 7, 7,
    7, 7, 7, 7, 7, 7, 7, 7, 8, 8, 9, 10, 11>>

\* The right sides of the rules, one behind the other, from rule 1.
rightSides ==
  <<100, 0, 100, 101, 4, 94, 102, 101, 3, 101, 0, 9, 121, 10, 121, 11, 115, 121, 12, 115, 121,
    13, 6, 121, 14, 6, 121, 15, 5, 121, 16, 5, 121, 17, 6, 121, 103, 101, 18, 6, 121, 104, 101,
    19, 6, 121, 105, 101, 21, 6, 121, 106, 101, 23, 121, 107, 101, 22, 4, 108, 6, 109, 121, 101,
    20, 4, 95, 117, 96, 3, 110, 6, 111, 121, 101, 4, 95, 112, 8, 113, 121, 114, 101, 24, 7, 97, 7,
    97, 7, 121, 25, 7, 97, 7, 97, 5, 121, 26, 7, 97, 7, 97, 5, 121, 27, 7, 97, 7, 97, 7, 121, 28,
    7, 97, 7, 97, 7, 121, 29, 7, 97, 7, 97, 5, 121, 30, 7, 97, 7, 97, 119, 121, 31, 7, 97, 119,
    121, 32, 7, 97, 119, 121, 33, 7, 97, 119, 121, 34, 7, 97, 119, 121, 35, 7, 97, 119, 121, 36,
    7, 97, 119, 121, 37, 7, 97, 7, 97, 119, 121, 38, 7, 97, 7, 121, 39, 7, 97, 7, 121, 40, 120,
    121, 41, 120, 121, 42, 7, 121, 43, 7, 97, 120, 121, 44, 7, 97, 5, 121, 45, 7, 97, 120, 121,
    46, 7, 121, 47, 7, 121, 48, 7, 97, 7, 121, 49, 7, 97, 7, 121, 50, 7, 97, 7, 97, 7, 121, 51, 7,
    97, 7, 97, 5, 121, 52, 7, 97, 120, 121, 53, 7, 97, 7, 97, 5, 121, 54, 7, 97, 7, 97, 7, 121,
    56, 7, 97, 7, 97, 7, 121, 57, 7, 97, 7, 97, 5, 121, 58, 7, 97, 7, 97, 5, 121, 59, 7, 97, 7,
    97, 7, 121, 60, 7, 97, 7, 97, 7, 121, 61, 7, 97, 7, 97, 7, 121, 62, 7, 97, 7, 97, 5, 121, 63,
    7, 97, 7, 97, 5, 121, 64, 7, 97, 7, 97, 7, 121, 65, 7, 97, 7, 97, 7, 121, 66, 7, 97, 7, 97, 7,
    121, 67, 7, 97, 120, 121, 68, 121, 69, 7, 97, 7, 97, 7, 121, 70, 7, 97, 7, 97, 5, 121, 71, 7,
    97, 7, 121, 55, 7, 97, 7, 97, 7, 121, 72, 7, 97, 7, 121, 73, 7, 121, 24, 7, 97, 7, 97, 5, 121,
    71, 7, 121, 85, 121, 74, 119, 121, 75, 119, 121, 76, 7, 97, 7, 97, 119, 121, 77, 7, 97, 7, 97,
    119, 121, 78, 7, 97, 7, 97, 119, 121, 79, 7, 97, 7, 97, 119, 121, 80, 7, 97, 7, 97, 119, 121,
    81, 7, 97, 119, 121, 30, 7, 97, 5, 97, 119, 121, 37, 7, 97, 5, 97, 119, 121, 48, 7, 97, 7, 97,
    7, 121, 38, 7, 97, 7, 97, 7, 121, 82, 7, 97, 7, 97, 7, 121, 86, 7, 97, 7, 121, 87, 7, 121, 88,
    7, 121, 89, 7, 121, 90, 7, 121, 93, 121, 91, 121, 92, 119, 121, 83, 7, 97, 5, 121, 84, 7, 97,
    119, 121, 116, 5, 94, 5, 4, 94, 5, 5, 4, 116, 97, 5, 116, 97, 4, 118, 4, 117, 97, 4, 4, 119,
    4, 98, 5, 95, 7, 96, 5, 95, 7, 96, 4, 95, 7, 96, 4, 98, 5, 95, 7, 96, 3, 0>>
rightOffset ==
  <<0, 2, 4, 4, 4, 8, 10, 11, 13, 15, 18, 21, 24, 27, 30, 33, 33, 38, 38, 43, 43, 48, 48, 53,
    53, 57, 57, 57, 64, 64, 64, 75, 75, 75, 75, 83, 90, 97, 104, 111, 118, 125, 132, 137, 142,
    147, 152, 157, 162, 169, 174, 179, 182, 185, 188, 193, 198, 203, 206, 209, 214, 219, 226, 233,
    238, 245, 252, 259, 266, 273, 280, 287, 294, 301, 308, 315, 322, 329, 334, 336, 343, 350, 355,
    362, 367, 370, 377, 380, 382, 385, 388, 395, 402, 409, 416, 423, 428, 435, 442, 449, 456, 463,
    468, 471, 474, 477, 480, 482, 484, 487, 492, 497, 498, 501, 504, 505, 506, 509, 512, 513, 513,
    514, 517, 518, 519, 522, 525, 529, 533, 539, 540>>
Right(rule, j) == rightSides[rightOffset[rule] + j]
Left(rule) == Entry(yyr1, rule)
Stos(state) == Entry(yystos, state)

\* The states a symbol's text may begin in: of $@1 to $@13, one each.
middleStart == <<93, 201, 202, 203, 205, 114, 113, 292, 422, 505, 94, 280, 421>>
Starts(symbol) ==
  CASE symbol \in {99, 100}   -> {0}
    [] symbol = 101           -> {1, 3, 190, 207, 285, 286, 287, 291, 424, 463, 507}
    [] symbol \in 102 .. 114  -> {Entry(middleStart, symbol - 102)}
    [] symbol \in {115, 116}  -> {7, 8}
    [] symbol \in {117, 118}  -> {204}
    [] symbol = 119 ->
         {36, 37, 70, 71, 88, 231, 233, 240, 255, 269, 272, 367, 368, 375, 376} \cup 215 .. 220
         \cup 411 .. 415
    [] symbol = 120           -> {36, 37, 231, 233, 240, 255}
    [] symbol = 121 ->
         {5, 6, 19, 64, 81, 87, 89, 101, 112, 135, 136, 137, 141, 142, 166, 168, 170, 171, 183,
         184, 185, 186, 188, 310, 311, 323, 338, 341, 342, 348, 350, 351, 352, 353, 360, 506}
         \cup 103 .. 110 \cup 302 .. 307 \cup 316 .. 320 \cup 425 .. 436 \cup 438 .. 462

\* The symbols that a left side may begin with wherever they may stand.
Opens == {<<117, 118>>}

\* The rules that begin as another does, with how many symbols.
Shares ==
  {<<1, 2, 1>>, <<5, 35, 1>>, <<36, 86, 5>>, <<42, 97, 3>>, <<49, 98, 3>>, <<50, 100, 4>>,
   <<60, 99, 4>>, <<82, 87, 2>>, <<112, 117, 1>>, <<113, 115, 1>>, <<114, 116, 1>>, <<117, 118,
   2>>, <<125, 123, 1>>, <<125, 128, 1>>, <<125, 129, 3>>}

\* A state that may be pushed on another: it begins its rule, or goes on in it or in
\* one that has begun as the rule of the state below, or with the symbol of that.
Follows(p, q) ==
  LET rule == Entry(itemRule, q)
      dot == Entry(itemDot, q)
  IN  \/ dot = 1 /\ p \in Starts(Left(rule))
      \/ /\ dot > 1 /\ Entry(itemDot, p) = dot - 1
         /\ Entry(itemRule, p) = rule \/ <<Entry(itemRule, p), rule, dot - 1>> \in Shares
      \/ dot = 2 /\ Stos(p) = Right(rule, 1) /\ <<Stos(p), Left(rule)>> \in Opens

\* A state in which a rule is complete.
Completes(q, rule) ==
  LET length == Entry(yyr2, rule)
      item == Entry(itemRule, q)
      dot == Entry(itemDot, q)
  IN  \/ length = 0 /\ q \in Starts(Left(rule))
      \/ length = dot /\ item = rule
      \/ length = dot /\ <<item, rule, dot>> \in Shares

\* What the tables say of each state, entry or symbol is looked up a table at a time:
\* an entry is named by a number of its own, as the only member of a set, which the
\* solver does not put in the place of the entry.
LEMMA ItemOfState ==
  ASSUME NEW q \in States \ {0}
  PROVE  /\ Entry(itemRule, q) \in 1 .. 131 /\ Entry(itemDot, q) \in 1 .. 11
         /\ Stos(q) \in 0 .. 121
         /\ Right(Entry(itemRule, q), Entry(itemDot, q)) = Stos(q)
<1> DEFINE rule == Entry(itemRule, q)
           dot == Entry(itemDot, q)
<1>1. rule \in 1 .. 131 /\ dot \in 1 .. 11
  BY DEF States, Entry, itemRule, itemDot
<1>2. Stos(q) \in 0 .. 121
  BY DEF States, Entry, Stos, yystos
<1>3. ASSUME NEW r \in 1 .. 131, rule \in {r}, NEW d \in 1 .. 11, dot \in {d}
      PROVE  Right(r, d) = Stos(q)
  BY <1>3, SMTT(100)
     DEF States, Entry, itemRule, itemDot, Right, rightSides, rightOffset, Stos, yystos
<1> HIDE DEF rule, dot
<1>4. rule \in {rule} /\ dot \in {dot}
  OBVIOUS
<1> QED BY <1>1, <1>2, <1>3, <1>4 DEF rule, dot

\* The rules without a right side.
Empty == {3, 4, 16, 18, 20, 22, 24, 26, 27, 29, 30, 32, 33, 34, 120}

LEMMA Completed ==
  ASSUME NEW q \in States, q # yyfinal, Entry(yydefact, q) # 0
  PROVE  Completes(q, Entry(yydefact, q))
<1> DEFINE rule == Entry(yydefact, q)
<1>1. rule \in Rules
  BY RuleOfState
<1>2. ASSUME NEW r \in Empty, rule \in {r}
      PROVE  q \in Starts(Left(r)) /\ Entry(yyr2, r) = 0
  BY <1>2, SMTT(100)
     DEF States, Entry, yydefact, yyfinal, Starts, Left, yyr1, yyr2, middleStart, Empty
<1>3. ASSUME NEW r \in Rules \ Empty, rule \in {r}
      PROVE  Entry(itemDot, q) = Entry(yyr2, r)
  BY <1>3, SMTT(100) DEF States, Rules, Entry, yydefact, yyfinal, itemDot, yyr2, Empty
<1>4. ASSUME NEW r \in Rules \ Empty, rule \in {r}
      PROVE  Entry(itemRule, q) = r \/ <<Entry(itemRule, q), r, Entry(yyr2, r)>> \in Shares
  BY <1>4, SMTT(100) DEF States, Rules, Entry, yydefact, yyfinal, itemRule, yyr2, Empty, Shares
<1> HIDE DEF rule
<1>5. rule \in {rule}
  OBVIOUS
<1>6. CASE rule \in Empty
  BY <1>2, <1>5, <1>6 DEF Completes, rule
<1>7. CASE rule \notin Empty
  <2>1. /\ Entry(itemDot, q) = Entry(yyr2, rule)
        /\ Entry(itemRule, q) = rule \/ <<Entry(itemRule, q), rule, Entry(yyr2, rule)>> \in Shares
    BY <1>1, <1>3, <1>4, <1>5, <1>7
  <2> QED BY <2>1 DEF Completes, rule
<1> QED BY <1>6, <1>7

LEMMA OpensStarts ==
  ASSUME NEW a, NEW b, <<a, b>> \in Opens
  PROVE  a \in 100 .. 121 /\ Starts(a) \subseteq Starts(b)
BY DEF Opens, Starts

LEMMA SharesPair ==
  ASSUME NEW a, NEW b, NEW n, <<a, b, n>> \in Shares
  PROVE  \/ a = 1 /\ b = 2 /\ n = 1
         \/ a = 5 /\ b = 35 /\ n = 1
         \/ a = 36 /\ b = 86 /\ n = 5
         \/ a = 42 /\ b = 97 /\ n = 3
         \/ a = 49 /\ b = 98 /\ n = 3
         \/ a = 50 /\ b = 100 /\ n = 4
         \/ a = 60 /\ b = 99 /\ n = 4
         \/ a = 82 /\ b = 87 /\ n = 2
         \/ a = 112 /\ b = 117 /\ n = 1
         \/ a = 113 /\ b = 115 /\ n = 1
         \/ a = 114 /\ b = 116 /\ n = 1
         \/ a = 117 /\ b = 118 /\ n = 2
         \/ a = 125 /\ b = 123 /\ n = 1
         \/ a = 125 /\ b = 128 /\ n = 1
         \/ a = 125 /\ b = 129 /\ n = 3
BY DEF Shares

LEMMA SharesRule ==
  ASSUME NEW a, NEW b, NEW n, <<a, b, n>> \in Shares
  PROVE  /\ Starts(Left(a)) \subseteq Starts(Left(b))
         /\ \A j \in 1 .. n : Right(a, j) = Right(b, j)
<1>1. /\ Left(1) = 99
      /\ Left(2) = 100
      /\ Left(5) = 101
      /\ Left(35) = 101
      /\ Left(36) = 101
      /\ Left(42) = 101
      /\ Left(49) = 101
      /\ Left(50) = 101
      /\ Left(60) = 101
      /\ Left(82) = 101
      /\ Left(86) = 101
      /\ Left(87) = 101
      /\ Left(97) = 101
      /\ Left(98) = 101
      /\ Left(99) = 101
      /\ Left(100) = 101
      /\ Left(112) = 115
      /\ Left(113) = 115
      /\ Left(114) = 115
      /\ Left(115) = 116
      /\ Left(116) = 116
      /\ Left(117) = 116
      /\ Left(118) = 116
      /\ Left(123) = 119
      /\ Left(125) = 120
      /\ Left(128) = 120
      /\ Left(129) = 120
  BY DEF Left, Entry, yyr1
<1>2. /\ Starts(99) \subseteq Starts(100) /\ Starts(115) \subseteq Starts(116)
      /\ Starts(120) \subseteq Starts(119)
  BY DEF Starts
<1>3. Starts(Left(a)) \subseteq Starts(Left(b))
  BY <1>1, <1>2, SharesPair
<1>4. \A j \in 1 .. 1 : Right(1, j) = Right(2, j)
  BY DEF Right, rightSides, rightOffset
<1>5. \A j \in 1 .. 1 : Right(5, j) = Right(35, j)
  BY DEF Right, rightSides, rightOffset
<1>6. \A j \in 1 .. 5 : Right(36, j) = Right(86, j)
  BY DEF Right, rightSides, rightOffset
<1>7. \A j \in 1 .. 3 : Right(42, j) = Right(97, j)
  BY DEF Right, rightSides, rightOffset
<1>8. \A j \in 1 .. 3 : Right(49, j) = Right(98, j)
  BY DEF Right, rightSides, rightOffset
<1>9. \A j \in 1 .. 4 : Right(50, j) = Right(100, j)
  BY DEF Right, rightSides, rightOffset
<1>10. \A j \in 1 .. 4 : Right(60, j) = Right(99, j)
  BY DEF Right, rightSides, rightOffset
<1>11. \A j \in 1 .. 2 : Right(82, j) = Right(87, j)
  BY DEF Right, rightSides, rightOffset
<1>12. \A j \in 1 .. 1 : Right(112, j) = Right(117, j)
  BY DEF Right, rightSides, rightOffset
<1>13. \A j \in 1 .. 1 : Right(113, j) = Right(115, j)
  BY DEF Right, rightSides, rightOffset
<1>14. \A j \in 1 .. 1 : Right(114, j) = Right(116, j)
  BY DEF Right, rightSides, rightOffset
<1>15. \A j \in 1 .. 2 : Right(117, j) = Right(118, j)
  BY DEF Right, rightSides, rightOffset
<1>16. \A j \in 1 .. 1 : Right(125, j) = Right(123, j)
  BY DEF Right, rightSides, rightOffset
<1>17. \A j \in 1 .. 1 : Right(125, j) = Right(128, j)
  BY DEF Right, rightSides, rightOffset
<1>18. \A j \in 1 .. 3 : Right(125, j) = Right(129, j)
  BY DEF Right, rightSides, rightOffset
<1>19. \A j \in 1 .. n : Right(a, j) = Right(b, j)
  BY <1>4, <1>5, <1>6, <1>7, <1>8, <1>9, <1>10, <1>11, <1>12, <1>13, <1>14, <1>15, <1>16, <1>17,
     <1>18, SharesPair
<1> QED BY <1>3, <1>19

-----------------------------------------------------------------------------
(***************************************************************************)
(* What is pushed.  A token's entry lies in the row of the state it is     *)
(* shifted in, and rows that several states have are those of states that  *)
(* may begin the same.                                                     *)
(***************************************************************************)

\* The state below each state that does not begin its rule, and 0.
before ==
  <<0, 0, 1, 0, 0, 0, 0, 0, 0, 0, 0, 0, 0, 0, 0, 0, 0, 0, 0, 0, 0, 0, 0, 0, 0, 0, 0, 0, 0, 0, 0,
    0, 0, 0, 0, 0, 0, 0, 0, 0, 0, 0, 0, 0, 0, 0, 0, 0, 0, 0, 0, 0, 0, 0, 0, 0, 0, 0, 0, 0, 0, 0,
    0, 0, 0, 0, 0, 0, 0, 0, 0, 0, 0, 0, 0, 0, 0, 0, 0, 0, 0, 0, 0, 0, 0, 0, 0, 0, 0, 0, 1, 0, 3,
    4, 4, 0, 0, 5, 6, 0, 0, 7, 0, 8, 9, 10, 11, 12, 13, 14, 15, 16, 17, 18, 19, 20, 21, 22, 23,
    24, 25, 26, 27, 28, 29, 30, 31, 32, 33, 34, 35, 0, 0, 0, 0, 36, 37, 38, 39, 40, 41, 42, 43,
    44, 45, 46, 47, 48, 49, 50, 51, 52, 53, 54, 55, 56, 57, 58, 59, 60, 61, 62, 63, 64, 65, 66,
    67, 68, 69, 0, 70, 71, 72, 73, 74, 75, 76, 77, 78, 79, 80, 81, 82, 83, 84, 85, 86, 87, 88, 89,
    93, 94, 99, 100, 101, 102, 103, 104, 105, 106, 107, 108, 109, 110, 111, 112, 113, 114, 115,
    116, 117, 118, 119, 120, 121, 122, 123, 124, 125, 126, 127, 128, 129, 130, 131, 131, 132, 133,
    135, 136, 137, 138, 139, 140, 141, 142, 143, 144, 145, 146, 147, 148, 149, 150, 151, 152, 153,
    154, 155, 156, 157, 158, 159, 160, 161, 162, 164, 165, 166, 166, 167, 168, 170, 171, 172, 173,
    174, 175, 176, 177, 178, 179, 180, 182, 183, 184, 185, 186, 188, 190, 191, 192, 193, 195, 195,
    201, 202, 203, 0, 204, 0, 205, 206, 207, 208, 209, 210, 211, 212, 213, 214, 214, 215, 216,
    217, 218, 219, 220, 221, 221, 222, 223, 224, 225, 226, 227, 231, 232, 233, 236, 237, 238, 239,
    240, 241, 242, 243, 244, 245, 246, 247, 248, 249, 250, 251, 252, 253, 254, 255, 256, 257, 258,
    260, 264, 265, 266, 267, 268, 269, 270, 271, 272, 273, 280, 285, 286, 287, 289, 289, 291, 292,
    294, 295, 296, 297, 298, 299, 300, 301, 302, 303, 304, 305, 306, 307, 308, 309, 310, 310, 311,
    312, 313, 314, 316, 317, 318, 319, 319, 320, 321, 322, 323, 324, 325, 326, 327, 328, 329, 330,
    331, 332, 333, 334, 335, 336, 337, 338, 339, 340, 341, 342, 343, 344, 345, 346, 347, 348, 349,
    350, 351, 352, 353, 357, 358, 360, 361, 361, 362, 363, 364, 365, 366, 367, 368, 375, 376, 377,
    381, 386, 389, 390, 392, 393, 394, 395, 396, 397, 398, 399, 400, 401, 402, 403, 404, 405, 407,
    408, 411, 412, 413, 414, 415, 417, 421, 422, 424, 425, 426, 427, 428, 429, 430, 431, 432, 433,
    434, 435, 436, 437, 438, 439, 440, 441, 442, 443, 444, 445, 446, 447, 448, 449, 450, 451, 452,
    453, 454, 455, 456, 457, 458, 459, 460, 461, 462, 463, 464, 505, 506, 507>>
\* The state of each row from -82, and 0.
owner ==
  <<131, 0, 0, 0, 0, 0, 0, 0, 0, 0, 4, 0, 0, 0, 0, 0, 289, 0, 0, 0, 0, 0, 0, 99, 0, 0, 0, 0,
    100, 0, 0, 0, 0, 0, 0, 0, 0, 0, 0, 0, 0, 0, 0, 0, 0, 0, 0, 0, 0, 0, 0, 0, 0, 0, 0, 0, 0, 0, 0,
    0, 0, 0, 0, 0, 0, 0, 0, 0, 0, 0, 0, 0, 0, 0, 0, 0, 0, 0, 0, 0, 0, 102, 0, 166, 310, 319, 16,
    0, 0, 0, 9, 0, 214, 0, 0, 221, 361, 0, 0, 0, 0, 0, 0, 111, 195, 0, 18, 115, 10, 227, 11, 12,
    13, 14, 15, 17, 20, 0, 21, 22, 23, 24, 25, 26, 27, 116, 117, 28, 29, 30, 31, 32, 33, 34, 35,
    38, 39, 40, 41, 42, 43, 44, 45, 132, 46, 47, 48, 49, 50, 51, 52, 53, 54, 55, 56, 57, 58, 59,
    60, 61, 62, 63, 118, 65, 66, 67, 68, 69, 119, 72, 73, 0, 74, 120, 0, 121, 0, 75, 76, 0, 77,
    78, 79, 80, 82, 0, 83, 122, 84, 85, 86, 0, 133, 191, 0, 192, 206, 123, 124, 125, 126, 127,
    128, 129, 130, 138, 139, 140, 143, 144, 464, 145, 146, 147, 148, 149, 150, 151, 152, 153, 154,
    155, 156, 157, 158, 159, 160, 161, 162, 164, 165, 167, 172, 173, 193, 174, 175, 208, 176, 177,
    178, 179, 180, 182, 204, 209, 210, 211, 212, 213, 222, 223, 0, 224, 0, 226, 225, 236, 232,
    237, 238, 239, 0, 0, 0, 0, 0, 241, 0, 0, 0, 294, 295, 0, 296, 297, 298, 299, 300, 301, 242,
    308, 309, 0, 312, 321, 313, 314, 322, 324, 325, 326, 327, 328, 329, 330, 331, 332, 333, 334,
    335, 336, 337, 339, 340, 343, 344, 345, 346, 347, 0, 0, 0, 0, 0, 0, 349, 0, 0, 0, 0, 0, 0, 0,
    0, 0, 0, 0, 0, 0, 0, 0, 0, 0, 243, 244, 245, 246, 247, 248, 249, 250, 251, 252, 253, 254, 256,
    257, 258, 260, 264, 265, 266, 267, 268, 270, 0, 0, 271, 0, 273, 0, 0, 0, 0, 0, 437, 0, 0, 0,
    0, 0, 0, 0, 357, 0, 0, 0, 0, 0, 358, 0, 0, 0, 0, 0, 0, 0, 0, 0, 0, 0, 0, 0, 0, 0, 0, 0, 0, 0,
    0, 0, 0, 0, 0, 0, 0, 0, 0, 362, 0, 364, 363, 365, 366, 0, 0, 0, 0, 377, 381, 0, 0, 0, 386,
    389, 0, 0, 390, 392, 396, 397, 393, 394, 395, 398, 0, 399, 400, 0, 0, 0, 0, 401, 402, 403,
    408, 404, 0, 0, 0, 0, 405, 407, 417>>
Owner(row) == Entry(owner, row + 82)

\* The rows of one state that owner has, the others, and those of the left sides.
OwnRows == -82 .. 372
OtherRows == {-83, 6, 9, 20, 89, 521, 615}
GoToRows == {-83, -30, -20, -3, 23, 360}

\* The states that begin a rule, and those that leave the rule of the state below.
First == {1, 91, 95, 96, 99, 100, 102, 131, 132, 133, 134, 169, 288, 290} \cup 3 .. 89
Branches == {90, 94, 195, 224, 259, 283, 300, 308, 358, 377, 381, 386, 425}

LEMMA FirstItem ==
  ASSUME NEW q \in First
  PROVE  Entry(itemDot, q) = 1
BY SMTT(60) DEF Entry, itemDot, First

LEMMA FirstLeft ==
  ASSUME NEW q \in First
  PROVE  Left(Entry(itemRule, q)) =
           CASE q \in 3 .. 91 -> 101 [] q \in {99, 100, 102} -> 115 [] q = 288 -> 118
             [] q = 169 -> 119 [] q \in 131 .. 134 -> 120 [] q \in {95, 96} -> 121
             [] q = 1 -> 99 [] q = 290 -> 117
BY SMTT(60) DEF Entry, itemRule, First, Left, yyr1

LEMMA FirstFollows ==
  ASSUME NEW q \in First, NEW p \in Starts(Left(Entry(itemRule, q)))
  PROVE  Follows(p, q)
BY FirstItem DEF Follows

LEMMA BeforeTyped ==
  ASSUME NEW q \in States
  PROVE  Entry(before, q) \in States /\ (q # 0 /\ Entry(before, q) = 0 => q \in First)
BY SMTT(60) DEF States, Entry, before, First

LEMMA BeforeDot ==
  ASSUME NEW q \in States, q # 358, NEW p \in Int, p # 0, Entry(before, q) \in {p},
         NEW d \in Int, Entry(itemDot, p) \in {d}
  PROVE  Entry(itemDot, q) \in {d + 1}
BY SMTT(100) DEF States, Entry, before, itemDot

LEMMA BeforeRule ==
  ASSUME NEW q \in States \ Branches, NEW p \in States, p # 0, Entry(before, q) \in {p}
  PROVE  Entry(itemRule, p) = Entry(itemRule, q)
BY SMTT(60) DEF States, Entry, before, itemRule, Branches

LEMMA BranchRule ==
  ASSUME NEW q \in Branches \ {358}
  PROVE  <<Entry(itemRule, Entry(before, q)), Entry(itemRule, q), Entry(itemDot, q) - 1>> \in Shares
<1>1. CASE q = 90
  BY <1>1 DEF Entry, before, itemRule, itemDot, Shares
<1>2. CASE q = 94
  BY <1>2 DEF Entry, before, itemRule, itemDot, Shares
<1>3. CASE q = 195
  BY <1>3 DEF Entry, before, itemRule, itemDot, Shares
<1>4. CASE q = 224
  BY <1>4 DEF Entry, before, itemRule, itemDot, Shares
<1>5. CASE q = 259
  BY <1>5 DEF Entry, before, itemRule, itemDot, Shares
<1>6. CASE q = 283
  BY <1>6 DEF Entry, before, itemRule, itemDot, Shares
<1>7. CASE q = 300
  BY <1>7 DEF Entry, before, itemRule, itemDot, Shares
<1>8. CASE q = 308
  BY <1>8 DEF Entry, before, itemRule, itemDot, Shares
<1>9. CASE q = 377
  BY <1>9 DEF Entry, before, itemRule, itemDot, Shares
<1>10. CASE q = 381
  BY <1>10 DEF Entry, before, itemRule, itemDot, Shares
<1>11. CASE q = 386
  BY <1>11 DEF Entry, before, itemRule, itemDot, Shares
<1>12. CASE q = 425
  BY <1>12 DEF Entry, before, itemRule, itemDot, Shares
<1> QED BY <1>1, <1>2, <1>3, <1>4, <1>5, <1>6, <1>7, <1>8, <1>9, <1>10, <1>11, <1>12 DEF Branches

LEMMA BeforeFollows ==
  ASSUME NEW q \in States, NEW p \in States, p # 0, Entry(before, q) \in {p}
  PROVE  Follows(p, q)
<1> DEFINE rule == Entry(itemRule, q)
           dot == Entry(itemDot, q)
           below == Entry(itemRule, p)
           depth == Entry(itemDot, p)
<1>1. q # 0
  <2>1. Entry(before, 0) = 0
    BY DEF Entry, before
  <2> QED BY <2>1 DEF States
<1>2. dot \in 1 .. 11 /\ depth \in 1 .. 11 /\ p \in Int
  BY <1>1, ItemOfState DEF States
<1>3. q # 358 => dot \in {depth + 1}
  <2>1. depth \in Int /\ depth \in {depth}
    BY <1>2
  <2> HIDE DEF depth
  <2> QED BY <1>2, <2>1, BeforeDot, Zenon DEF depth
<1>4. q \notin Branches => below = rule
  BY BeforeRule
<1>5. q \in Branches /\ q # 358 => <<below, rule, dot - 1>> \in Shares
  <2>1. p = Entry(before, q)
    OBVIOUS
  <2> QED BY <2>1, BranchRule
<1>6. CASE q = 358
  BY <1>6 DEF Follows, Entry, before, itemRule, itemDot, Stos, yystos, Right, rightSides,
     rightOffset,
              Left, yyr1, Opens
<1>7. CASE q # 358
  <2> HIDE DEF rule, dot, below, depth
  <2>1. dot > 1 /\ depth = dot - 1
    BY <1>2, <1>3, <1>7
  <2>2. below = rule \/ <<below, rule, dot - 1>> \in Shares
    BY <1>4, <1>5, <1>7
  <2> QED BY <2>1, <2>2 DEF Follows, rule, dot, below, depth
<1> QED BY <1>6, <1>7

\* The rows.
LEMMA RowKinds ==
  ASSUME NEW p \in States, NEW row \in Int, Entry(yypact, p) \in {row}, row # yypact_ninf
  PROVE  row \notin GoToRows /\ row \in OwnRows \cup OtherRows
BY SMTT(60) DEF States, Entry, yypact, GoToRows, OwnRows, OtherRows, yypact_ninf

LEMMA RowOwner ==
  ASSUME NEW p \in States, NEW row \in Int, Entry(yypact, p) \in {row}, row \notin OtherRows
  PROVE  Owner(row) = p
BY SMTT(60) DEF States, Entry, yypact, OtherRows, Owner, owner

LEMMA RowStarts ==
  ASSUME NEW p \in States, NEW row \in Int, Entry(yypact, p) \in {row}
  PROVE  /\ row \in {521, 615} => p \in Starts(101)
         /\ row \in {1, 2, 3, 9} => p \in Starts(121)
         /\ row \in {6, 89} => p \in Starts(119)
         /\ row = 6 => p \in Starts(120)
         /\ row = 20 => p \in Starts(115)
         /\ row = 162 => p \in Starts(118)
         /\ row = 521 => p = 1
BY SMTT(60) DEF States, Entry, yypact, Starts, middleStart

\* An entry of a token, in a row of a state: i is its place, c the token, q the state.
LEMMA EntryStos ==
  ASSUME NEW i \in 0 .. yylast, NEW c \in Nat, c < yyntokens, NEW row \in Int, i = row + c,
         Entry(yycheck, i) \in {c}, row \notin GoToRows,
         NEW q \in Int, Entry(yytable, i) \in {q}
  PROVE  q # 0 /\ Stos(q) \in {c}
BY SMTT(100) DEF yylast, yyntokens, GoToRows, Entry, yycheck, yytable, Stos, yystos

LEMMA EntryFirst ==
  ASSUME NEW i \in 0 .. yylast, NEW c \in Nat, c < yyntokens, NEW row \in Int, i = row + c,
         Entry(yycheck, i) \in {c}, row \notin GoToRows,
         NEW q \in First, Entry(yytable, i) \in {q}
  PROVE  /\ q \notin {1, 102, 134, 290}
         /\ q \in 3 .. 91 => row \in {521, 615}
         /\ q \in {95, 96} => row \in {1, 2, 3, 9}
         /\ q \in {99, 100} => row = 20
         /\ q \in 131 .. 133 => row = 6
         /\ q = 169 => row = 89
         /\ q = 288 => row = 162
BY SMTT(100) DEF yylast, yyntokens, GoToRows, Entry, yycheck, yytable, First

LEMMA EntryFinal ==
  ASSUME NEW i \in 0 .. yylast, Entry(yytable, i) \in {2}
  PROVE  i = 521 /\ Entry(yycheck, i) = 0
BY SMTT(100) DEF yylast, Entry, yytable, yycheck

LEMMA EntryRow ==
  ASSUME NEW i \in 0 .. yylast, NEW c \in Nat, c < yyntokens, NEW row \in Int, i = row + c,
         Entry(yycheck, i) \in {c}, row \notin GoToRows,
         NEW q \in Int, q # 2, Entry(yytable, i) \in {q},
         NEW p \in Int, p # 0, Entry(before, q) \in {p}
  PROVE  row \notin OtherRows
BY SMTT(100) DEF yylast, yyntokens, GoToRows, Entry, yycheck, yytable, before, OtherRows

LEMMA EntryOwner ==
  ASSUME NEW i \in 0 .. yylast, NEW c \in Nat, c < yyntokens, NEW row \in Int, i = row + c,
         Entry(yycheck, i) \in {c}, row \notin GoToRows, row \in OwnRows,
         NEW q \in Int, q # 2, Entry(yytable, i) \in {q},
         NEW p \in Int, p # 0, Entry(before, q) \in {p}
  PROVE  Owner(row) \in {p}
BY SMTT(100) DEF yylast, yyntokens, GoToRows, OwnRows, Entry, yycheck, yytable, before, Owner,
   owner

\* Where the parser goes with what it has made, from where that began: on with the rule
\* it is in, or into a rule that begins there.
GoesOn(p, q) ==
  \/ Entry(before, q) \in {p}
  \/ q \in First /\ p \in Starts(Left(Entry(itemRule, q)))

Goes(symbol) ==
  \A p \in Starts(symbol), q \in Int :
    GoTo(p, symbol) \in {q} => q # 0 /\ Stos(q) \in {symbol} /\ GoesOn(p, q)

LEMMA GoToGoes ==
  ASSUME NEW symbol \in yyntokens + 1 .. 121
  PROVE  Goes(symbol)
<1>100. Goes(100)
  <2>1. ASSUME NEW p \in Starts(100), NEW q \in Int, GoTo(p, 100) \in {q}
        PROVE  q # 0 /\ Stos(q) \in {100}
    BY <2>1, SMTT(100)
       DEF Entry, GoTo, yypgoto, yydefgoto, yytable, yycheck, yylast, yyntokens, Starts,
           middleStart,
           Stos, yystos
  <2>2. ASSUME NEW p \in Starts(100), NEW q \in Int, GoTo(p, 100) \in {q}
        PROVE  Entry(before, q) \in {p} \/ (q = 1)
    BY <2>2, SMTT(100)
       DEF Entry, GoTo, yypgoto, yydefgoto, yytable, yycheck, yylast, yyntokens, Starts,
           middleStart,
           before
  <2>3. 1 \in First /\ Left(Entry(itemRule, 1)) = 99
    BY DEF Entry, itemRule, First, Left, yyr1
  <2>4. Starts(100) = Starts(99)
    BY DEF Starts
  <2> QED BY <2>1, <2>2, <2>3, <2>4 DEF Goes, GoesOn
<1>101. Goes(101)
  <2>1. ASSUME NEW p \in Starts(101), NEW q \in Int, GoTo(p, 101) \in {q}
        PROVE  q # 0 /\ Stos(q) \in {101}
    BY <2>1, SMTT(100)
       DEF Entry, GoTo, yypgoto, yydefgoto, yytable, yycheck, yylast, yyntokens, Starts,
           middleStart,
           Stos, yystos
  <2>2. ASSUME NEW p \in Starts(101), NEW q \in Int, GoTo(p, 101) \in {q}
        PROVE  Entry(before, q) \in {p}
    BY <2>2, SMTT(100)
       DEF Entry, GoTo, yypgoto, yydefgoto, yytable, yycheck, yylast, yyntokens, Starts,
           middleStart,
           before
  <2> QED BY <2>1, <2>2 DEF Goes, GoesOn
<1>102. Goes(102)
  <2>1. ASSUME NEW p \in Starts(102), NEW q \in Int, GoTo(p, 102) \in {q}
        PROVE  q # 0 /\ Stos(q) \in {102}
    BY <2>1, SMTT(100)
       DEF Entry, GoTo, yypgoto, yydefgoto, yytable, yycheck, yylast, yyntokens, Starts,
           middleStart,
           Stos, yystos
  <2>2. ASSUME NEW p \in Starts(102), NEW q \in Int, GoTo(p, 102) \in {q}
        PROVE  Entry(before, q) \in {p}
    BY <2>2, SMTT(100)
       DEF Entry, GoTo, yypgoto, yydefgoto, yytable, yycheck, yylast, yyntokens, Starts,
           middleStart,
           before
  <2> QED BY <2>1, <2>2 DEF Goes, GoesOn
<1>103. Goes(103)
  <2>1. ASSUME NEW p \in Starts(103), NEW q \in Int, GoTo(p, 103) \in {q}
        PROVE  q # 0 /\ Stos(q) \in {103}
    BY <2>1, SMTT(100)
       DEF Entry, GoTo, yypgoto, yydefgoto, yytable, yycheck, yylast, yyntokens, Starts,
           middleStart,
           Stos, yystos
  <2>2. ASSUME NEW p \in Starts(103), NEW q \in Int, GoTo(p, 103) \in {q}
        PROVE  Entry(before, q) \in {p}
    BY <2>2, SMTT(100)
       DEF Entry, GoTo, yypgoto, yydefgoto, yytable, yycheck, yylast, yyntokens, Starts,
           middleStart,
           before
  <2> QED BY <2>1, <2>2 DEF Goes, GoesOn
<1>104. Goes(104)
  <2>1. ASSUME NEW p \in Starts(104), NEW q \in Int, GoTo(p, 104) \in {q}
        PROVE  q # 0 /\ Stos(q) \in {104}
    BY <2>1, SMTT(100)
       DEF Entry, GoTo, yypgoto, yydefgoto, yytable, yycheck, yylast, yyntokens, Starts,
           middleStart,
           Stos, yystos
  <2>2. ASSUME NEW p \in Starts(104), NEW q \in Int, GoTo(p, 104) \in {q}
        PROVE  Entry(before, q) \in {p}
    BY <2>2, SMTT(100)
       DEF Entry, GoTo, yypgoto, yydefgoto, yytable, yycheck, yylast, yyntokens, Starts,
           middleStart,
           before
  <2> QED BY <2>1, <2>2 DEF Goes, GoesOn
<1>105. Goes(105)
  <2>1. ASSUME NEW p \in Starts(105), NEW q \in Int, GoTo(p, 105) \in {q}
        PROVE  q # 0 /\ Stos(q) \in {105}
    BY <2>1, SMTT(100)
       DEF Entry, GoTo, yypgoto, yydefgoto, yytable, yycheck, yylast, yyntokens, Starts,
           middleStart,
           Stos, yystos
  <2>2. ASSUME NEW p \in Starts(105), NEW q \in Int, GoTo(p, 105) \in {q}
        PROVE  Entry(before, q) \in {p}
    BY <2>2, SMTT(100)
       DEF Entry, GoTo, yypgoto, yydefgoto, yytable, yycheck, yylast, yyntokens, Starts,
           middleStart,
           before
  <2> QED BY <2>1, <2>2 DEF Goes, GoesOn
<1>106. Goes(106)
  <2>1. ASSUME NEW p \in Starts(106), NEW q \in Int, GoTo(p, 106) \in {q}
        PROVE  q # 0 /\ Stos(q) \in {106}
    BY <2>1, SMTT(100)
       DEF Entry, GoTo, yypgoto, yydefgoto, yytable, yycheck, yylast, yyntokens, Starts,
           middleStart,
           Stos, yystos
  <2>2. ASSUME NEW p \in Starts(106), NEW q \in Int, GoTo(p, 106) \in {q}
        PROVE  Entry(before, q) \in {p}
    BY <2>2, SMTT(100)
       DEF Entry, GoTo, yypgoto, yydefgoto, yytable, yycheck, yylast, yyntokens, Starts,
           middleStart,
           before
  <2> QED BY <2>1, <2>2 DEF Goes, GoesOn
<1>107. Goes(107)
  <2>1. ASSUME NEW p \in Starts(107), NEW q \in Int, GoTo(p, 107) \in {q}
        PROVE  q # 0 /\ Stos(q) \in {107}
    BY <2>1, SMTT(100)
       DEF Entry, GoTo, yypgoto, yydefgoto, yytable, yycheck, yylast, yyntokens, Starts,
           middleStart,
           Stos, yystos
  <2>2. ASSUME NEW p \in Starts(107), NEW q \in Int, GoTo(p, 107) \in {q}
        PROVE  Entry(before, q) \in {p}
    BY <2>2, SMTT(100)
       DEF Entry, GoTo, yypgoto, yydefgoto, yytable, yycheck, yylast, yyntokens, Starts,
           middleStart,
           before
  <2> QED BY <2>1, <2>2 DEF Goes, GoesOn
<1>108. Goes(108)
  <2>1. ASSUME NEW p \in Starts(108), NEW q \in Int, GoTo(p, 108) \in {q}
        PROVE  q # 0 /\ Stos(q) \in {108}
    BY <2>1, SMTT(100)
       DEF Entry, GoTo, yypgoto, yydefgoto, yytable, yycheck, yylast, yyntokens, Starts,
           middleStart,
           Stos, yystos
  <2>2. ASSUME NEW p \in Starts(108), NEW q \in Int, GoTo(p, 108) \in {q}
        PROVE  Entry(before, q) \in {p}
    BY <2>2, SMTT(100)
       DEF Entry, GoTo, yypgoto, yydefgoto, yytable, yycheck, yylast, yyntokens, Starts,
           middleStart,
           before
  <2> QED BY <2>1, <2>2 DEF Goes, GoesOn
<1>109. Goes(109)
  <2>1. ASSUME NEW p \in Starts(109), NEW q \in Int, GoTo(p, 109) \in {q}
        PROVE  q # 0 /\ Stos(q) \in {109}
    BY <2>1, SMTT(100)
       DEF Entry, GoTo, yypgoto, yydefgoto, yytable, yycheck, yylast, yyntokens, Starts,
           middleStart,
           Stos, yystos
  <2>2. ASSUME NEW p \in Starts(109), NEW q \in Int, GoTo(p, 109) \in {q}
        PROVE  Entry(before, q) \in {p}
    BY <2>2, SMTT(100)
       DEF Entry, GoTo, yypgoto, yydefgoto, yytable, yycheck, yylast, yyntokens, Starts,
           middleStart,
           before
  <2> QED BY <2>1, <2>2 DEF Goes, GoesOn
<1>110. Goes(110)
  <2>1. ASSUME NEW p \in Starts(110), NEW q \in Int, GoTo(p, 110) \in {q}
        PROVE  q # 0 /\ Stos(q) \in {110}
    BY <2>1, SMTT(100)
       DEF Entry, GoTo, yypgoto, yydefgoto, yytable, yycheck, yylast, yyntokens, Starts,
           middleStart,
           Stos, yystos
  <2>2. ASSUME NEW p \in Starts(110), NEW q \in Int, GoTo(p, 110) \in {q}
        PROVE  Entry(before, q) \in {p}
    BY <2>2, SMTT(100)
       DEF Entry, GoTo, yypgoto, yydefgoto, yytable, yycheck, yylast, yyntokens, Starts,
           middleStart,
           before
  <2> QED BY <2>1, <2>2 DEF Goes, GoesOn
<1>111. Goes(111)
  <2>1. ASSUME NEW p \in Starts(111), NEW q \in Int, GoTo(p, 111) \in {q}
        PROVE  q # 0 /\ Stos(q) \in {111}
    BY <2>1, SMTT(100)
       DEF Entry, GoTo, yypgoto, yydefgoto, yytable, yycheck, yylast, yyntokens, Starts,
           middleStart,
           Stos, yystos
  <2>2. ASSUME NEW p \in Starts(111), NEW q \in Int, GoTo(p, 111) \in {q}
        PROVE  Entry(before, q) \in {p}
    BY <2>2, SMTT(100)
       DEF Entry, GoTo, yypgoto, yydefgoto, yytable, yycheck, yylast, yyntokens, Starts,
           middleStart,
           before
  <2> QED BY <2>1, <2>2 DEF Goes, GoesOn
<1>112. Goes(112)
  <2>1. ASSUME NEW p \in Starts(112), NEW q \in Int, GoTo(p, 112) \in {q}
        PROVE  q # 0 /\ Stos(q) \in {112}
    BY <2>1, SMTT(100)
       DEF Entry, GoTo, yypgoto, yydefgoto, yytable, yycheck, yylast, yyntokens, Starts,
           middleStart,
           Stos, yystos
  <2>2. ASSUME NEW p \in Starts(112), NEW q \in Int, GoTo(p, 112) \in {q}
        PROVE  Entry(before, q) \in {p}
    BY <2>2, SMTT(100)
       DEF Entry, GoTo, yypgoto, yydefgoto, yytable, yycheck, yylast, yyntokens, Starts,
           middleStart,
           before
  <2> QED BY <2>1, <2>2 DEF Goes, GoesOn
<1>113. Goes(113)
  <2>1. ASSUME NEW p \in Starts(113), NEW q \in Int, GoTo(p, 113) \in {q}
        PROVE  q # 0 /\ Stos(q) \in {113}
    BY <2>1, SMTT(100)
       DEF Entry, GoTo, yypgoto, yydefgoto, yytable, yycheck, yylast, yyntokens, Starts,
           middleStart,
           Stos, yystos
  <2>2. ASSUME NEW p \in Starts(113), NEW q \in Int, GoTo(p, 113) \in {q}
        PROVE  Entry(before, q) \in {p}
    BY <2>2, SMTT(100)
       DEF Entry, GoTo, yypgoto, yydefgoto, yytable, yycheck, yylast, yyntokens, Starts,
           middleStart,
           before
  <2> QED BY <2>1, <2>2 DEF Goes, GoesOn
<1>114. Goes(114)
  <2>1. ASSUME NEW p \in Starts(114), NEW q \in Int, GoTo(p, 114) \in {q}
        PROVE  q # 0 /\ Stos(q) \in {114}
    BY <2>1, SMTT(100)
       DEF Entry, GoTo, yypgoto, yydefgoto, yytable, yycheck, yylast, yyntokens, Starts,
           middleStart,
           Stos, yystos
  <2>2. ASSUME NEW p \in Starts(114), NEW q \in Int, GoTo(p, 114) \in {q}
        PROVE  Entry(before, q) \in {p}
    BY <2>2, SMTT(100)
       DEF Entry, GoTo, yypgoto, yydefgoto, yytable, yycheck, yylast, yyntokens, Starts,
           middleStart,
           before
  <2> QED BY <2>1, <2>2 DEF Goes, GoesOn
<1>115. Goes(115)
  <2>1. ASSUME NEW p \in Starts(115), NEW q \in Int, GoTo(p, 115) \in {q}
        PROVE  q # 0 /\ Stos(q) \in {115}
    BY <2>1, SMTT(100)
       DEF Entry, GoTo, yypgoto, yydefgoto, yytable, yycheck, yylast, yyntokens, Starts,
           middleStart,
           Stos, yystos
  <2>2. ASSUME NEW p \in Starts(115), NEW q \in Int, GoTo(p, 115) \in {q}
        PROVE  Entry(before, q) \in {p}
    BY <2>2, SMTT(100)
       DEF Entry, GoTo, yypgoto, yydefgoto, yytable, yycheck, yylast, yyntokens, Starts,
           middleStart,
           before
  <2> QED BY SMTT(30), <2>1, <2>2 DEF Goes, GoesOn
<1>116. Goes(116)
  <2>1. ASSUME NEW p \in Starts(116), NEW q \in Int, GoTo(p, 116) \in {q}
        PROVE  q # 0 /\ Stos(q) \in {116}
    BY <2>1, SMTT(100)
       DEF Entry, GoTo, yypgoto, yydefgoto, yytable, yycheck, yylast, yyntokens, Starts,
           middleStart,
           Stos, yystos
  <2>2. ASSUME NEW p \in Starts(116), NEW q \in Int, GoTo(p, 116) \in {q}
        PROVE  Entry(before, q) \in {p} \/ (q = 102 /\ p \in {7, 8})
    BY <2>2, SMTT(100)
       DEF Entry, GoTo, yypgoto, yydefgoto, yytable, yycheck, yylast, yyntokens, Starts,
           middleStart,
           before
  <2>3. 102 \in First /\ Left(Entry(itemRule, 102)) = 115
    BY DEF Entry, itemRule, First, Left, yyr1
  <2>4. \A p : p \in {7, 8} => p \in Starts(115)
    BY DEF Starts
  <2> QED BY SMTT(30), <2>1, <2>2, <2>3, <2>4 DEF Goes, GoesOn
<1>117. Goes(117)
  <2>1. ASSUME NEW p \in Starts(117), NEW q \in Int, GoTo(p, 117) \in {q}
        PROVE  q # 0 /\ Stos(q) \in {117}
    BY <2>1, SMTT(100)
       DEF Entry, GoTo, yypgoto, yydefgoto, yytable, yycheck, yylast, yyntokens, Starts,
           middleStart,
           Stos, yystos
  <2>2. ASSUME NEW p \in Starts(117), NEW q \in Int, GoTo(p, 117) \in {q}
        PROVE  Entry(before, q) \in {p}
    BY <2>2, SMTT(100)
       DEF Entry, GoTo, yypgoto, yydefgoto, yytable, yycheck, yylast, yyntokens, Starts,
           middleStart,
           before
  <2> QED BY <2>1, <2>2 DEF Goes, GoesOn
<1>118. Goes(118)
  <2>1. ASSUME NEW p \in Starts(118), NEW q \in Int, GoTo(p, 118) \in {q}
        PROVE  q # 0 /\ Stos(q) \in {118}
    BY <2>1, SMTT(100)
       DEF Entry, GoTo, yypgoto, yydefgoto, yytable, yycheck, yylast, yyntokens, Starts,
           middleStart,
           Stos, yystos
  <2>2. ASSUME NEW p \in Starts(118), NEW q \in Int, GoTo(p, 118) \in {q}
        PROVE  Entry(before, q) \in {p} \/ (q = 290 /\ p = 204)
    BY <2>2, SMTT(100)
       DEF Entry, GoTo, yypgoto, yydefgoto, yytable, yycheck, yylast, yyntokens, Starts,
           middleStart,
           before
  <2>3. 290 \in First /\ Left(Entry(itemRule, 290)) = 117
    BY DEF Entry, itemRule, First, Left, yyr1
  <2>4. \A p : p = 204 => p \in Starts(117)
    BY DEF Starts
  <2> QED BY <2>1, <2>2, <2>3, <2>4 DEF Goes, GoesOn
<1>119. Goes(119)
  <2>1. ASSUME NEW p \in Starts(119), NEW q \in Int, GoTo(p, 119) \in {q}
        PROVE  q # 0 /\ Stos(q) \in {119}
    BY <2>1, SMTT(100)
       DEF Entry, GoTo, yypgoto, yydefgoto, yytable, yycheck, yylast, yyntokens, Starts,
           middleStart,
           Stos, yystos
  <2>2. ASSUME NEW p \in Starts(119), NEW q \in Int, GoTo(p, 119) \in {q}
        PROVE  Entry(before, q) \in {p} \/ (q = 134 /\ p \in {36, 37, 231, 233, 240, 255})
    BY <2>2, SMTT(100)
       DEF Entry, GoTo, yypgoto, yydefgoto, yytable, yycheck, yylast, yyntokens, Starts,
           middleStart,
           before
  <2>3. 134 \in First /\ Left(Entry(itemRule, 134)) = 120
    BY DEF Entry, itemRule, First, Left, yyr1
  <2>4. \A p : p \in {36, 37, 231, 233, 240, 255} => p \in Starts(120)
    BY DEF Starts
  <2> QED BY SMTT(30), <2>1, <2>2, <2>3, <2>4 DEF Goes, GoesOn
<1>120. Goes(120)
  <2>1. ASSUME NEW p \in Starts(120), NEW q \in Int, GoTo(p, 120) \in {q}
        PROVE  q # 0 /\ Stos(q) \in {120}
    BY <2>1, SMTT(100)
       DEF Entry, GoTo, yypgoto, yydefgoto, yytable, yycheck, yylast, yyntokens, Starts,
           middleStart,
           Stos, yystos
  <2>2. ASSUME NEW p \in Starts(120), NEW q \in Int, GoTo(p, 120) \in {q}
        PROVE  Entry(before, q) \in {p}
    BY <2>2, SMTT(100)
       DEF Entry, GoTo, yypgoto, yydefgoto, yytable, yycheck, yylast, yyntokens, Starts,
           middleStart,
           before
  <2> QED BY <2>1, <2>2 DEF Goes, GoesOn
<1>121. Goes(121)
  <2>1. ASSUME NEW p \in Starts(121), NEW q \in Int, GoTo(p, 121) \in {q}
        PROVE  q # 0 /\ Stos(q) \in {121}
    BY <2>1, SMTT(100)
       DEF Entry, GoTo, yypgoto, yydefgoto, yytable, yycheck, yylast, yyntokens, Starts,
           middleStart,
           Stos, yystos
  <2>2. ASSUME NEW p \in Starts(121), NEW q \in Int, GoTo(p, 121) \in {q}
        PROVE  Entry(before, q) \in {p}
    BY <2>2, SMTT(100)
       DEF Entry, GoTo, yypgoto, yydefgoto, yytable, yycheck, yylast, yyntokens, Starts,
           middleStart,
           before
  <2> QED BY SMTT(30), <2>1, <2>2 DEF Goes, GoesOn
<1> QED BY <1>100, <1>101, <1>102, <1>103, <1>104, <1>105, <1>106, <1>107, <1>108, <1>109,
           <1>110, <1>111, <1>112, <1>113, <1>114, <1>115, <1>116, <1>117, <1>118, <1>119,
           <1>120, <1>121
       DEF yyntokens

\* What a token leads to begins a rule where the parser is, or goes on with the one
\* that it is in.
LEMMA ShiftFollows ==
  ASSUME NEW p \in States, Entry(yypact, p) # yypact_ninf, NEW x \in Nat, x < yyntokens,
         NEW i \in 0 .. yylast, i = Entry(yypact, p) + x, Entry(yycheck, i) = x,
         NEW q \in States, Entry(yytable, i) = q
  PROVE  q # 0 /\ Stos(q) = x /\ Follows(p, q)
<1> DEFINE row == Entry(yypact, p)
           b == Entry(before, q)
<1>1. row \in Int
  BY DEF States, Entry, yypact
<1>2. b \in States /\ (q # 0 /\ b = 0 => q \in First)
  BY BeforeTyped
<1>3. q \in Int /\ b \in Int
  BY <1>2 DEF States
<1> HIDE DEF row, b
<1>4. /\ i = row + x /\ Entry(yypact, p) \in {row} /\ row # yypact_ninf
      /\ Entry(yycheck, i) \in {x} /\ Entry(yytable, i) \in {q} /\ Entry(before, q) \in {b}
  BY DEF row, b
<1>5. row \notin GoToRows /\ row \in OwnRows \cup OtherRows
  BY <1>1, <1>4, RowKinds, Zenon
<1>6. q # 0 /\ Stos(q) \in {x}
  BY <1>1, <1>3, <1>4, <1>5, EntryStos, Zenon
<1>7. CASE b = 0
  <2>1. q \in First
    BY <1>2, <1>6, <1>7
  <2>2. /\ q \notin {1, 102, 134, 290}
        /\ q \in 3 .. 91 => row \in {521, 615}
        /\ q \in {95, 96} => row \in {1, 2, 3, 9}
        /\ q \in {99, 100} => row = 20
        /\ q \in 131 .. 133 => row = 6
        /\ q = 169 => row = 89
        /\ q = 288 => row = 162
    BY <1>1, <1>4, <1>5, <2>1, EntryFirst
  <2>3. /\ row \in {521, 615} => p \in Starts(101)
        /\ row \in {1, 2, 3, 9} => p \in Starts(121)
        /\ row \in {6, 89} => p \in Starts(119)
        /\ row = 6 => p \in Starts(120)
        /\ row = 20 => p \in Starts(115)
        /\ row = 162 => p \in Starts(118)
    BY <1>1, <1>4, RowStarts
  <2>4. p \in Starts(Left(Entry(itemRule, q)))
    BY <2>1, <2>2, <2>3, FirstLeft, SMTT(60) DEF First
  <2> QED BY <1>6, <2>1, <2>4, FirstFollows
<1>8. CASE b # 0 /\ q = 2
  <2>1. i = 521 /\ x = 0
    BY <1>4, <1>8, EntryFinal
  <2>2. row = 521
    BY <1>1, <1>4, <2>1
  <2>3. p = 1
    BY <1>1, <1>4, <2>2, RowStarts
  <2>4. Entry(before, 2) \in {1} /\ 1 \in States /\ 1 # 0
    BY DEF Entry, before, States
  <2> QED BY <1>6, <1>8, <2>3, <2>4, BeforeFollows
<1>9. CASE b # 0 /\ q # 2
  <2>1. row \notin OtherRows
    BY <1>1, <1>3, <1>4, <1>5, <1>9, EntryRow, Zenon
  <2>2. row \in OwnRows
    BY <1>5, <2>1
  <2>3. Owner(row) \in {b}
    BY <1>1, <1>3, <1>4, <1>5, <1>9, <2>2, EntryOwner, Zenon
  <2>4. Owner(row) = p
    BY <1>1, <1>4, <2>1, RowOwner, Zenon
  <2> QED BY <1>4, <1>6, <1>9, <2>3, <2>4, BeforeFollows
<1> QED BY <1>7, <1>8, <1>9

\* Only the program begins where there is nothing yet.
LEMMA OnlyTheProgram == \A symbol \in 101 .. 121 : 0 \notin Starts(symbol)
BY DEF Starts, middleStart, Entry

LEMMA GoToFollows ==
  ASSUME NEW symbol \in yyntokens + 1 .. 121, NEW p \in Starts(symbol), p \in States,
         NEW q \in States, GoTo(p, symbol) = q
  PROVE  q # 0 /\ Stos(q) = symbol /\ Follows(p, q)
<1>1. q \in Int
  BY DEF States
<1>2. q # 0 /\ Stos(q) = symbol /\ GoesOn(p, q)
  BY <1>1, GoToGoes DEF Goes
<1>3. CASE p # 0 /\ Entry(before, q) \in {p}
  BY <1>2, <1>3, BeforeFollows
<1>4. CASE p = 0 /\ Entry(before, q) \in {p}
  <2>1. q \in First
    BY <1>2, <1>4, BeforeTyped
  <2>2. p \in Starts(Left(Entry(itemRule, q)))
    <3>1. symbol = 100
      BY <1>4, OnlyTheProgram DEF yyntokens
    <3>2. q = 1
      BY <1>4, <3>1 DEF GoTo, yypgoto, yydefgoto, yytable, yycheck, yylast, yyntokens, Entry
    <3>3. Left(Entry(itemRule, 1)) = 99 /\ 0 \in Starts(99)
      BY DEF Left, Entry, itemRule, yyr1, Starts
    <3> QED BY <1>4, <3>2, <3>3
  <2> QED BY <1>2, <2>1, <2>2, FirstFollows
<1>5. CASE q \in First /\ p \in Starts(Left(Entry(itemRule, q)))
  BY <1>2, <1>5, FirstFollows
<1> QED BY <1>2, <1>3, <1>4, <1>5 DEF GoesOn

-----------------------------------------------------------------------------
(***************************************************************************)
(* The right sides are those of the grammar.                               *)
(***************************************************************************)

Named(rule, j) == Entry(yytname, Right(rule, j))

\* A rule of the tables with its right side, and that it is one of the grammar.
RuleOf(rule, right) == Rule(rule, Entry(yytname, Left(rule)), right)

Sided(rule) ==
  /\ Entry(yyr2, rule) \in {0, 1, 2, 3, 4, 5, 6, 7, 8, 11}
  /\ Entry(yyr2, rule) = 0 => RuleOf(rule, <<>>) \in Grammar
  /\ Entry(yyr2, rule) = 1 => RuleOf(rule, <<Named(rule, 1)>>) \in Grammar
  /\ Entry(yyr2, rule) = 2 => RuleOf(rule, <<Named(rule, 1), Named(rule, 2)>>) \in Grammar
  /\ Entry(yyr2, rule) = 3 =>
       RuleOf(rule, <<Named(rule, 1), Named(rule, 2), Named(rule, 3)>>) \in Grammar
  /\ Entry(yyr2, rule) = 4 =>
       RuleOf(rule, <<Named(rule, 1), Named(rule, 2), Named(rule, 3), Named(rule, 4)>>)
         \in Grammar
  /\ Entry(yyr2, rule) = 5 =>
       RuleOf(rule, <<Named(rule, 1), Named(rule, 2), Named(rule, 3), Named(rule, 4),
                        Named(rule, 5)>>) \in Grammar
  /\ Entry(yyr2, rule) = 6 =>
       RuleOf(rule, <<Named(rule, 1), Named(rule, 2), Named(rule, 3), Named(rule, 4),
                        Named(rule, 5), Named(rule, 6)>>) \in Grammar
  /\ Entry(yyr2, rule) = 7 =>
       RuleOf(rule, <<Named(rule, 1), Named(rule, 2), Named(rule, 3), Named(rule, 4),
                        Named(rule, 5), Named(rule, 6), Named(rule, 7)>>) \in Grammar
  /\ Entry(yyr2, rule) = 8 =>
       RuleOf(rule, <<Named(rule, 1), Named(rule, 2), Named(rule, 3), Named(rule, 4),
                        Named(rule, 5), Named(rule, 6), Named(rule, 7),
                        Named(rule, 8)>>) \in Grammar
  /\ Entry(yyr2, rule) = 11 =>
       RuleOf(rule, <<Named(rule, 1), Named(rule, 2), Named(rule, 3), Named(rule, 4),
                        Named(rule, 5), Named(rule, 6), Named(rule, 7), Named(rule, 8),
                        Named(rule, 9), Named(rule, 10), Named(rule, 11)>>) \in Grammar

LEMMA DirectiveSides ==
  ASSUME NEW r \in 1 .. 35
  PROVE  Sided(r)
<1>1. Entry(yyr2, r) \in {0, 1, 2, 3, 4, 5, 7, 8, 11}
  BY DEF Entry, yyr2
<1> DEFINE left == Entry(yytname, Left(r))
           a == Named(r, 1)
           b == Named(r, 2)
           c == Named(r, 3)
           d == Named(r, 4)
           e == Named(r, 5)
           f == Named(r, 6)
           g == Named(r, 7)
           h == Named(r, 8)
<1>2. Entry(yyr2, r) = 0 => RuleOf(r, <<>>) \in DirectiveRules
  <2>1. /\ Entry(yytname, Left(r)) \in {left}
    OBVIOUS
  <2> HIDE DEF left
  <2>2. Entry(yyr2, r) = 0 => Rule(r, left, <<>>) \in DirectiveRules
    BY <2>1, SMTT(100)
       DEF DirectiveRules, Rule, rightSides, rightOffset, Entry, yyr1, yyr2, yytname, Left,
           Right, Named
  <2> QED BY <2>2 DEF RuleOf, left
<1>3. Entry(yyr2, r) = 1 => RuleOf(r, <<Named(r, 1)>>) \in DirectiveRules
  <2>1. /\ Entry(yytname, Left(r)) \in {left} /\ Named(r, 1) \in {a}
    OBVIOUS
  <2> HIDE DEF left, a
  <2>2. Entry(yyr2, r) = 1 => Rule(r, left, <<a>>) \in DirectiveRules
    BY <2>1, SMTT(100)
       DEF DirectiveRules, Rule, rightSides, rightOffset, Entry, yyr1, yyr2, yytname, Left,
           Right, Named
  <2> QED BY <2>2 DEF RuleOf, left, a
<1>4. Entry(yyr2, r) = 2 => RuleOf(r, <<Named(r, 1), Named(r, 2)>>) \in DirectiveRules
  <2>1. /\ Entry(yytname, Left(r)) \in {left} /\ Named(r, 1) \in {a} /\ Named(r, 2) \in {b}
    OBVIOUS
  <2> HIDE DEF left, a, b
  <2>2. Entry(yyr2, r) = 2 => Rule(r, left, <<a, b>>) \in DirectiveRules
    BY <2>1, SMTT(100)
       DEF DirectiveRules, Rule, rightSides, rightOffset, Entry, yyr1, yyr2, yytname, Left,
           Right, Named
  <2> QED BY <2>2 DEF RuleOf, left, a, b
<1>5. Entry(yyr2, r) = 3 =>
        RuleOf(r, <<Named(r, 1), Named(r, 2), Named(r, 3)>>) \in DirectiveRules
  <2>1. /\ Entry(yytname, Left(r)) \in {left} /\ Named(r, 1) \in {a} /\ Named(r, 2) \in {b}
        /\ Named(r, 3) \in {c}
    OBVIOUS
  <2> HIDE DEF left, a, b, c
  <2>2. Entry(yyr2, r) = 3 => Rule(r, left, <<a, b, c>>) \in DirectiveRules
    BY <2>1, SMTT(100)
       DEF DirectiveRules, Rule, rightSides, rightOffset, Entry, yyr1, yyr2, yytname, Left,
           Right, Named
  <2> QED BY <2>2 DEF RuleOf, left, a, b, c
<1>6. Entry(yyr2, r) = 4 =>
        RuleOf(r, <<Named(r, 1), Named(r, 2), Named(r, 3), Named(r, 4)>>) \in DirectiveRules
  <2>1. /\ Entry(yytname, Left(r)) \in {left} /\ Named(r, 1) \in {a} /\ Named(r, 2) \in {b}
        /\ Named(r, 3) \in {c} /\ Named(r, 4) \in {d}
    OBVIOUS
  <2> HIDE DEF left, a, b, c, d
  <2>2. Entry(yyr2, r) = 4 => Rule(r, left, <<a, b, c, d>>) \in DirectiveRules
    BY <2>1, SMTT(100)
       DEF DirectiveRules, Rule, rightSides, rightOffset, Entry, yyr1, yyr2, yytname, Left,
           Right, Named
  <2> QED BY <2>2 DEF RuleOf, left, a, b, c, d
<1>7. Entry(yyr2, r) = 5 =>
      RuleOf(r, <<Named(r, 1), Named(r, 2), Named(r, 3), Named(r, 4), Named(r, 5)>>)
        \in DirectiveRules
  <2>1. /\ Entry(yytname, Left(r)) \in {left} /\ Named(r, 1) \in {a} /\ Named(r, 2) \in {b}
        /\ Named(r, 3) \in {c} /\ Named(r, 4) \in {d} /\ Named(r, 5) \in {e}
    OBVIOUS
  <2> HIDE DEF left, a, b, c, d, e
  <2>2. Entry(yyr2, r) = 5 => Rule(r, left, <<a, b, c, d, e>>) \in DirectiveRules
    BY <2>1, SMTT(100)
       DEF DirectiveRules, Rule, rightSides, rightOffset, Entry, yyr1, yyr2, yytname, Left,
           Right, Named
  <2> QED BY <2>2 DEF RuleOf, left, a, b, c, d, e
<1>8. Entry(yyr2, r) = 7 =>
      RuleOf(r, <<Named(r, 1), Named(r, 2), Named(r, 3), Named(r, 4), Named(r, 5), Named(r, 6),
                 Named(r, 7)>>) \in DirectiveRules
  <2>1. /\ Entry(yytname, Left(r)) \in {left} /\ Named(r, 1) \in {a} /\ Named(r, 2) \in {b}
        /\ Named(r, 3) \in {c} /\ Named(r, 4) \in {d} /\ Named(r, 5) \in {e}
        /\ Named(r, 6) \in {f} /\ Named(r, 7) \in {g}
    OBVIOUS
  <2> HIDE DEF left, a, b, c, d, e, f, g
  <2>2. Entry(yyr2, r) = 7 => Rule(r, left, <<a, b, c, d, e, f, g>>) \in DirectiveRules
    BY <2>1, SMTT(100)
       DEF DirectiveRules, Rule, rightSides, rightOffset, Entry, yyr1, yyr2, yytname, Left,
           Right, Named
  <2> QED BY <2>2 DEF RuleOf, left, a, b, c, d, e, f, g
<1>9. Entry(yyr2, r) = 8 =>
      RuleOf(r, <<Named(r, 1), Named(r, 2), Named(r, 3), Named(r, 4), Named(r, 5), Named(r, 6),
                 Named(r, 7), Named(r, 8)>>) \in DirectiveRules
  <2>1. /\ Entry(yytname, Left(r)) \in {left} /\ Named(r, 1) \in {a} /\ Named(r, 2) \in {b}
        /\ Named(r, 3) \in {c} /\ Named(r, 4) \in {d} /\ Named(r, 5) \in {e}
        /\ Named(r, 6) \in {f} /\ Named(r, 7) \in {g} /\ Named(r, 8) \in {h}
    BY SMTT(30)
  <2> HIDE DEF left, a, b, c, d, e, f, g, h
  <2>2. Entry(yyr2, r) = 8 => Rule(r, left, <<a, b, c, d, e, f, g, h>>) \in DirectiveRules
    BY <2>1, SMTT(100)
       DEF DirectiveRules, Rule, rightSides, rightOffset, Entry, yyr1, yyr2, yytname, Left,
           Right, Named
  <2> QED BY <2>2 DEF RuleOf, left, a, b, c, d, e, f, g, h
<1>10. Entry(yyr2, r) = 11 =>
      RuleOf(r, <<Named(r, 1), Named(r, 2), Named(r, 3), Named(r, 4), Named(r, 5), Named(r, 6),
                 Named(r, 7), Named(r, 8), Named(r, 9), Named(r, 10), Named(r, 11)>>)
        \in DirectiveRules
  <2>1. Entry(yyr2, r) = 11 => r = 31
    BY SMTT(30) DEF Entry, yyr2
  <2>2. /\ Entry(yytname, Left(31)) = "statement"
        /\ Named(31, 1) = "MACRO" /\ Named(31, 2) = "IDENTIFIER" /\ Named(31, 3) = "("
        /\ Named(31, 4) = "identifier_list" /\ Named(31, 5) = ")" /\ Named(31, 6) = "END_OF_LINE"
        /\ Named(31, 7) = "$@9" /\ Named(31, 8) = "STRING" /\ Named(31, 9) = "$@10"
        /\ Named(31, 10) = "end_of_statement" /\ Named(31, 11) = "statement"
    BY DEF rightSides, rightOffset, Entry, yyr1, yyr2, yytname, Left, Right, Named
  <2>3. Rule(31, "statement", <<"MACRO", "IDENTIFIER", "(", "identifier_list", ")",
                                  "END_OF_LINE", "$@9", "STRING", "$@10", "end_of_statement",
                                  "statement">>) \in DirectiveRules
    BY DEF DirectiveRules
  <2> QED BY <2>1, <2>2, <2>3 DEF RuleOf
<1> QED BY <1>1, <1>2, <1>3, <1>4, <1>5, <1>6, <1>7, <1>8, <1>9, <1>10 DEF Grammar, Sided

LEMMA InstructionSides ==
  ASSUME NEW r \in 36 .. 83
  PROVE  Sided(r)
<1>1. Entry(yyr2, r) \in {2, 3, 5, 7}
  BY DEF Entry, yyr2
<1> DEFINE left == Entry(yytname, Left(r))
           a == Named(r, 1)
           b == Named(r, 2)
           c == Named(r, 3)
           d == Named(r, 4)
           e == Named(r, 5)
           f == Named(r, 6)
           g == Named(r, 7)
<1>2. Entry(yyr2, r) = 2 => RuleOf(r, <<Named(r, 1), Named(r, 2)>>) \in InstructionRules
  <2>1. /\ Entry(yytname, Left(r)) \in {left} /\ Named(r, 1) \in {a} /\ Named(r, 2) \in {b}
    OBVIOUS
  <2> HIDE DEF left, a, b
  <2>2. Entry(yyr2, r) = 2 => Rule(r, left, <<a, b>>) \in InstructionRules
    BY <2>1, SMTT(100)
       DEF InstructionRules, Rule, Bare, Unary, Binary, Ternary, rightSides, rightOffset, Entry,
           yyr1, yyr2, yytname, Left, Right, Named
  <2> QED BY <2>2 DEF RuleOf, left, a, b
<1>3. Entry(yyr2, r) = 3 =>
        RuleOf(r, <<Named(r, 1), Named(r, 2), Named(r, 3)>>) \in InstructionRules
  <2>1. /\ Entry(yytname, Left(r)) \in {left} /\ Named(r, 1) \in {a} /\ Named(r, 2) \in {b}
        /\ Named(r, 3) \in {c}
    OBVIOUS
  <2> HIDE DEF left, a, b, c
  <2>2. Entry(yyr2, r) = 3 => Rule(r, left, <<a, b, c>>) \in InstructionRules
    BY <2>1, SMTT(100)
       DEF InstructionRules, Rule, Bare, Unary, Binary, Ternary, rightSides, rightOffset, Entry,
           yyr1, yyr2, yytname, Left, Right, Named
  <2> QED BY <2>2 DEF RuleOf, left, a, b, c
<1>4. Entry(yyr2, r) = 5 =>
      RuleOf(r, <<Named(r, 1), Named(r, 2), Named(r, 3), Named(r, 4), Named(r, 5)>>)
        \in InstructionRules
  <2>1. /\ Entry(yytname, Left(r)) \in {left} /\ Named(r, 1) \in {a} /\ Named(r, 2) \in {b}
        /\ Named(r, 3) \in {c} /\ Named(r, 4) \in {d} /\ Named(r, 5) \in {e}
    OBVIOUS
  <2> HIDE DEF left, a, b, c, d, e
  <2>2. Entry(yyr2, r) = 5 => Rule(r, left, <<a, b, c, d, e>>) \in InstructionRules
    BY <2>1, SMTT(100)
       DEF InstructionRules, Rule, Bare, Unary, Binary, Ternary, rightSides, rightOffset, Entry,
           yyr1, yyr2, yytname, Left, Right, Named
  <2> QED BY <2>2 DEF RuleOf, left, a, b, c, d, e
<1>5. Entry(yyr2, r) = 7 =>
      RuleOf(r, <<Named(r, 1), Named(r, 2), Named(r, 3), Named(r, 4), Named(r, 5), Named(r, 6),
                 Named(r, 7)>>) \in InstructionRules
  <2>1. /\ Entry(yytname, Left(r)) \in {left} /\ Named(r, 1) \in {a} /\ Named(r, 2) \in {b}
        /\ Named(r, 3) \in {c} /\ Named(r, 4) \in {d} /\ Named(r, 5) \in {e}
        /\ Named(r, 6) \in {f} /\ Named(r, 7) \in {g}
    OBVIOUS
  <2> HIDE DEF left, a, b, c, d, e, f, g
  <2>2. Entry(yyr2, r) = 7 => Rule(r, left, <<a, b, c, d, e, f, g>>) \in InstructionRules
    BY <2>1, SMTT(100)
       DEF InstructionRules, Rule, Bare, Unary, Binary, Ternary, rightSides, rightOffset, Entry,
           yyr1, yyr2, yytname, Left, Right, Named
  <2> QED BY <2>2 DEF RuleOf, left, a, b, c, d, e, f, g
<1> QED BY <1>1, <1>2, <1>3, <1>4, <1>5 DEF Grammar, Sided

LEMMA PseudoinstructionSides ==
  ASSUME NEW r \in 84 .. 111
  PROVE  Sided(r)
<1>1. Entry(yyr2, r) \in {2, 3, 5, 7}
  BY DEF Entry, yyr2
<1> DEFINE left == Entry(yytname, Left(r))
           a == Named(r, 1)
           b == Named(r, 2)
           c == Named(r, 3)
           d == Named(r, 4)
           e == Named(r, 5)
           f == Named(r, 6)
           g == Named(r, 7)
<1>2. Entry(yyr2, r) = 2 => RuleOf(r, <<Named(r, 1), Named(r, 2)>>) \in PseudoinstructionRules
  <2>1. /\ Entry(yytname, Left(r)) \in {left} /\ Named(r, 1) \in {a} /\ Named(r, 2) \in {b}
    OBVIOUS
  <2> HIDE DEF left, a, b
  <2>2. Entry(yyr2, r) = 2 => Rule(r, left, <<a, b>>) \in PseudoinstructionRules
    BY <2>1, SMTT(100)
       DEF PseudoinstructionRules, Rule, Bare, Unary, Binary, Ternary, rightSides, rightOffset,
           Entry, yyr1, yyr2, yytname, Left, Right, Named
  <2> QED BY <2>2 DEF RuleOf, left, a, b
<1>3. Entry(yyr2, r) = 3 =>
        RuleOf(r, <<Named(r, 1), Named(r, 2), Named(r, 3)>>) \in PseudoinstructionRules
  <2>1. /\ Entry(yytname, Left(r)) \in {left} /\ Named(r, 1) \in {a} /\ Named(r, 2) \in {b}
        /\ Named(r, 3) \in {c}
    OBVIOUS
  <2> HIDE DEF left, a, b, c
  <2>2. Entry(yyr2, r) = 3 => Rule(r, left, <<a, b, c>>) \in PseudoinstructionRules
    BY <2>1, SMTT(100)
       DEF PseudoinstructionRules, Rule, Bare, Unary, Binary, Ternary, rightSides, rightOffset,
           Entry, yyr1, yyr2, yytname, Left, Right, Named
  <2> QED BY <2>2 DEF RuleOf, left, a, b, c
<1>4. Entry(yyr2, r) = 5 =>
      RuleOf(r, <<Named(r, 1), Named(r, 2), Named(r, 3), Named(r, 4), Named(r, 5)>>)
        \in PseudoinstructionRules
  <2>1. /\ Entry(yytname, Left(r)) \in {left} /\ Named(r, 1) \in {a} /\ Named(r, 2) \in {b}
        /\ Named(r, 3) \in {c} /\ Named(r, 4) \in {d} /\ Named(r, 5) \in {e}
    OBVIOUS
  <2> HIDE DEF left, a, b, c, d, e
  <2>2. Entry(yyr2, r) = 5 => Rule(r, left, <<a, b, c, d, e>>) \in PseudoinstructionRules
    BY <2>1, SMTT(100)
       DEF PseudoinstructionRules, Rule, Bare, Unary, Binary, Ternary, rightSides, rightOffset,
           Entry, yyr1, yyr2, yytname, Left, Right, Named
  <2> QED BY <2>2 DEF RuleOf, left, a, b, c, d, e
<1>5. Entry(yyr2, r) = 7 =>
      RuleOf(r, <<Named(r, 1), Named(r, 2), Named(r, 3), Named(r, 4), Named(r, 5), Named(r, 6),
                 Named(r, 7)>>) \in PseudoinstructionRules
  <2>1. /\ Entry(yytname, Left(r)) \in {left} /\ Named(r, 1) \in {a} /\ Named(r, 2) \in {b}
        /\ Named(r, 3) \in {c} /\ Named(r, 4) \in {d} /\ Named(r, 5) \in {e}
        /\ Named(r, 6) \in {f} /\ Named(r, 7) \in {g}
    BY SMTT(30)
  <2> HIDE DEF left, a, b, c, d, e, f, g
  <2>2. Entry(yyr2, r) = 7 => Rule(r, left, <<a, b, c, d, e, f, g>>) \in PseudoinstructionRules
    BY <2>1, SMTT(100)
       DEF PseudoinstructionRules, Rule, Bare, Unary, Binary, Ternary, rightSides, rightOffset,
           Entry, yyr1, yyr2, yytname, Left, Right, Named
  <2> QED BY <2>2 DEF RuleOf, left, a, b, c, d, e, f, g
<1> QED BY <1>1, <1>2, <1>3, <1>4, <1>5 DEF Grammar, Sided

LEMMA PartSides ==
  ASSUME NEW r \in 112 .. 131
  PROVE  Sided(r)
<1>1. Entry(yyr2, r) \in {0, 1, 3, 4, 6}
  BY DEF Entry, yyr2
<1> DEFINE left == Entry(yytname, Left(r))
           a == Named(r, 1)
           b == Named(r, 2)
           c == Named(r, 3)
           d == Named(r, 4)
           e == Named(r, 5)
           f == Named(r, 6)
<1>2. Entry(yyr2, r) = 0 => RuleOf(r, <<>>) \in PartRules
  <2>1. /\ Entry(yytname, Left(r)) \in {left}
    OBVIOUS
  <2> HIDE DEF left
  <2>2. Entry(yyr2, r) = 0 => Rule(r, left, <<>>) \in PartRules
    BY <2>1, SMTT(100)
       DEF PartRules, Rule, rightSides, rightOffset, Entry, yyr1, yyr2, yytname, Left, Right,
           Named
  <2> QED BY <2>2 DEF RuleOf, left
<1>3. Entry(yyr2, r) = 1 => RuleOf(r, <<Named(r, 1)>>) \in PartRules
  <2>1. /\ Entry(yytname, Left(r)) \in {left} /\ Named(r, 1) \in {a}
    OBVIOUS
  <2> HIDE DEF left, a
  <2>2. Entry(yyr2, r) = 1 => Rule(r, left, <<a>>) \in PartRules
    BY <2>1, SMTT(100)
       DEF PartRules, Rule, rightSides, rightOffset, Entry, yyr1, yyr2, yytname, Left, Right,
           Named
  <2> QED BY <2>2 DEF RuleOf, left, a
<1>4. Entry(yyr2, r) = 3 => RuleOf(r, <<Named(r, 1), Named(r, 2), Named(r, 3)>>) \in PartRules
  <2>1. /\ Entry(yytname, Left(r)) \in {left} /\ Named(r, 1) \in {a} /\ Named(r, 2) \in {b}
        /\ Named(r, 3) \in {c}
    OBVIOUS
  <2> HIDE DEF left, a, b, c
  <2>2. Entry(yyr2, r) = 3 => Rule(r, left, <<a, b, c>>) \in PartRules
    BY <2>1, SMTT(100)
       DEF PartRules, Rule, rightSides, rightOffset, Entry, yyr1, yyr2, yytname, Left, Right,
           Named
  <2> QED BY <2>2 DEF RuleOf, left, a, b, c
<1>5. Entry(yyr2, r) = 4 =>
        RuleOf(r, <<Named(r, 1), Named(r, 2), Named(r, 3), Named(r, 4)>>) \in PartRules
  <2>1. /\ Entry(yytname, Left(r)) \in {left} /\ Named(r, 1) \in {a} /\ Named(r, 2) \in {b}
        /\ Named(r, 3) \in {c} /\ Named(r, 4) \in {d}
    OBVIOUS
  <2> HIDE DEF left, a, b, c, d
  <2>2. Entry(yyr2, r) = 4 => Rule(r, left, <<a, b, c, d>>) \in PartRules
    BY <2>1, SMTT(100)
       DEF PartRules, Rule, rightSides, rightOffset, Entry, yyr1, yyr2, yytname, Left, Right,
           Named
  <2> QED BY <2>2 DEF RuleOf, left, a, b, c, d
<1>6. Entry(yyr2, r) = 6 =>
      RuleOf(r, <<Named(r, 1), Named(r, 2), Named(r, 3), Named(r, 4), Named(r, 5), Named(r,
                 6)>>) \in PartRules
  <2>1. /\ Entry(yytname, Left(r)) \in {left} /\ Named(r, 1) \in {a} /\ Named(r, 2) \in {b}
        /\ Named(r, 3) \in {c} /\ Named(r, 4) \in {d} /\ Named(r, 5) \in {e}
        /\ Named(r, 6) \in {f}
    OBVIOUS
  <2> HIDE DEF left, a, b, c, d, e, f
  <2>2. Entry(yyr2, r) = 6 => Rule(r, left, <<a, b, c, d, e, f>>) \in PartRules
    BY <2>1, SMTT(100)
       DEF PartRules, Rule, rightSides, rightOffset, Entry, yyr1, yyr2, yytname, Left, Right,
           Named
  <2> QED BY <2>2 DEF RuleOf, left, a, b, c, d, e, f
<1> QED BY <1>1, <1>2, <1>3, <1>4, <1>5, <1>6 DEF Grammar, Sided

LEMMA AllSided == \A rule \in 1 .. 131 : Sided(rule)
BY DirectiveSides, InstructionSides, PseudoinstructionSides, PartSides

LEMMA Sides ==
  ASSUME NEW rule \in 1 .. 131
  PROVE  RuleOf(rule, [j \in 1 .. Entry(yyr2, rule) |-> Named(rule, j)]) \in Grammar
<1> DEFINE n == Entry(yyr2, rule)
           x(j) == Named(rule, j)
           right == [j \in 1 .. n |-> x(j)]
<1>0. /\ n \in {0, 1, 2, 3, 4, 5, 6, 7, 8, 11}
      /\ n = 0 => RuleOf(rule, <<>>) \in Grammar
      /\ n = 1 => RuleOf(rule, <<x(1)>>) \in Grammar
      /\ n = 2 => RuleOf(rule, <<x(1), x(2)>>) \in Grammar
      /\ n = 3 => RuleOf(rule, <<x(1), x(2), x(3)>>) \in Grammar
      /\ n = 4 => RuleOf(rule, <<x(1), x(2), x(3), x(4)>>) \in Grammar
      /\ n = 5 => RuleOf(rule, <<x(1), x(2), x(3), x(4), x(5)>>) \in Grammar
      /\ n = 6 => RuleOf(rule, <<x(1), x(2), x(3), x(4), x(5), x(6)>>) \in Grammar
      /\ n = 7 => RuleOf(rule, <<x(1), x(2), x(3), x(4), x(5), x(6), x(7)>>) \in Grammar
      /\ n = 8 => RuleOf(rule, <<x(1), x(2), x(3), x(4), x(5), x(6), x(7), x(8)>>) \in Grammar
      /\ n = 11 =>
           RuleOf(rule, <<x(1), x(2), x(3), x(4), x(5), x(6), x(7), x(8), x(9), x(10), x(11)>>)
             \in Grammar
  BY Zenon, AllSided DEF Sided
<1>1. CASE n = 0
  <2>1. RuleOf(rule, <<>>) \in Grammar
    BY <1>0, <1>1
  <2> HIDE DEF n, x
  <2>2. right = <<>>
    BY <1>1
  <2> QED BY <2>1, <2>2 DEF n, x
<1>2. CASE n = 1
  <2>1. RuleOf(rule, <<x(1)>>) \in Grammar
    BY <1>0, <1>2
  <2> HIDE DEF n, x
  <2>2. right = <<x(1)>>
    BY <1>2
  <2> QED BY <2>1, <2>2 DEF n, x
<1>3. CASE n = 2
  <2>1. RuleOf(rule, <<x(1), x(2)>>) \in Grammar
    BY <1>0, <1>3
  <2> HIDE DEF n, x
  <2>2. right = <<x(1), x(2)>>
    BY <1>3
  <2> QED BY <2>1, <2>2 DEF n, x
<1>4. CASE n = 3
  <2>1. RuleOf(rule, <<x(1), x(2), x(3)>>) \in Grammar
    BY <1>0, <1>4
  <2> HIDE DEF n, x
  <2>2. right = <<x(1), x(2), x(3)>>
    BY <1>4
  <2> QED BY <2>1, <2>2 DEF n, x
<1>5. CASE n = 4
  <2>1. RuleOf(rule, <<x(1), x(2), x(3), x(4)>>) \in Grammar
    BY <1>0, <1>5
  <2> HIDE DEF n, x
  <2>2. right = <<x(1), x(2), x(3), x(4)>>
    BY <1>5
  <2> QED BY <2>1, <2>2 DEF n, x
<1>6. CASE n = 5
  <2>1. RuleOf(rule, <<x(1), x(2), x(3), x(4), x(5)>>) \in Grammar
    BY <1>0, <1>6
  <2> HIDE DEF n, x
  <2>2. right = <<x(1), x(2), x(3), x(4), x(5)>>
    BY <1>6
  <2> QED BY <2>1, <2>2 DEF n, x
<1>7. CASE n = 6
  <2>1. RuleOf(rule, <<x(1), x(2), x(3), x(4), x(5), x(6)>>) \in Grammar
    BY <1>0, <1>7
  <2> HIDE DEF n, x
  <2>2. right = <<x(1), x(2), x(3), x(4), x(5), x(6)>>
    BY <1>7
  <2> QED BY <2>1, <2>2 DEF n, x
<1>8. CASE n = 7
  <2>1. RuleOf(rule, <<x(1), x(2), x(3), x(4), x(5), x(6), x(7)>>) \in Grammar
    BY <1>0, <1>8
  <2> HIDE DEF n, x
  <2>2. right = <<x(1), x(2), x(3), x(4), x(5), x(6), x(7)>>
    BY <1>8
  <2> QED BY <2>1, <2>2 DEF n, x
<1>9. CASE n = 8
  <2>1. RuleOf(rule, <<x(1), x(2), x(3), x(4), x(5), x(6), x(7), x(8)>>) \in Grammar
    BY <1>0, <1>9
  <2> HIDE DEF n, x
  <2>2. right = <<x(1), x(2), x(3), x(4), x(5), x(6), x(7), x(8)>>
    BY <1>9
  <2> QED BY <2>1, <2>2 DEF n, x
<1>10. CASE n = 11
  <2>1. RuleOf(rule, <<x(1), x(2), x(3), x(4), x(5), x(6), x(7), x(8), x(9), x(10), x(11)>>)
          \in Grammar
    BY <1>0, <1>10
  <2> HIDE DEF n, x
  <2>2. right = <<x(1), x(2), x(3), x(4), x(5), x(6), x(7), x(8), x(9), x(10), x(11)>>
    BY <1>10
  <2> QED BY <2>1, <2>2 DEF n, x
<1> QED BY SMTT(30), <1>0, <1>1, <1>2, <1>3, <1>4, <1>5, <1>6, <1>7, <1>8, <1>9, <1>10

-----------------------------------------------------------------------------
(***************************************************************************)
(* The actions.                                                            *)
(***************************************************************************)

IsSequence(s) == \E S : s \in Seq(S)

LEMMA TuplesAreSequences ==
  /\ IsSequence(<<>>)
  /\ \A x : IsSequence(<<x>>)
  /\ \A x, y : IsSequence(<<x, y>>)
<1>1. <<>> \in Seq({})
  OBVIOUS
<1>2. \A x : <<x>> \in Seq({x})
  OBVIOUS
<1>3. \A x, y : <<x, y>> \in Seq({x, y})
  OBVIOUS
<1> QED BY <1>1, <1>2, <1>3 DEF IsSequence

LEMMA Concatenated ==
  ASSUME NEW s, IsSequence(s), NEW t, IsSequence(t)
  PROVE  IsSequence(s \o t)
<1>1. PICK S : s \in Seq(S)
  BY DEF IsSequence
<1>2. PICK T : t \in Seq(T)
  BY DEF IsSequence
<1>3. s \in Seq(S \cup T) /\ t \in Seq(S \cup T)
  BY <1>1, <1>2
<1>4. s \o t \in Seq(S \cup T)
  BY <1>3
<1> QED BY <1>4 DEF IsSequence

LEMMA PseudoIsSequence ==
  ASSUME NEW rule, NEW o
  PROVE  IsSequence(Pseudo(rule, o))
<1>1. \A reg : IsSequence(PushWord(reg)) /\ IsSequence(PopWord(reg))
  BY TuplesAreSequences DEF PushWord, PopWord, Pushing, Popping
<1>2. \A x : IsSequence(PushWord(RA) \o PushWord(FP) \o <<x>>)
  BY <1>1, TuplesAreSequences, Concatenated
<1>3. \A x, y : IsSequence(<<x>> \o PopWord(FP) \o PopWord(RA) \o <<y>>)
  BY <1>1, TuplesAreSequences, Concatenated
<1>4. \A d, value : IsSequence(LoadImmediate(d, value))
  BY TuplesAreSequences DEF LoadImmediate
<1> QED BY <1>1, <1>2, <1>3, <1>4, TuplesAreSequences
        DEF Pseudo, Compared, Against, LoadAddress, Pushing, Popping

LEMMA EffectsAreSequence ==
  ASSUME NEW rule \in Rules, NEW v, NEW below
  PROVE  IsSequence(Effects(rule, v, below))
BY PseudoIsSequence, TuplesAreSequences
   DEF Effects, Middle, Rules, FirstNative, LastNative, DirectiveOf

\* A rule that is not one of a line, or of a part of it that ends with its line,
\* does nothing.
LEMMA OnlyLinesAct ==
  ASSUME NEW rule \in Rules, rule \notin LineRules, NEW v, NEW below
  PROVE  Effects(rule, v, below) = <<>> /\ Mode(rule) = flag
<1>1. LastNative = 83
  BY DEF LastNative, FirstNative, Native
<1>2. Middle(rule, below) = <<>> /\ Pseudo(rule, Operands(v)) = <<>>
  BY DEF Rules, LineRules, Middle, Pseudo
<1> QED BY <1>1, <1>2 DEF Rules, LineRules, Effects, Mode, FirstNative, DirectiveOf

-----------------------------------------------------------------------------
(***************************************************************************)
(* The states on the stack.                                                *)
(***************************************************************************)

\* At the k-th state, as many symbols of a rule as dot have been read, and where
\* they began the rule could.
Holds(s, k, rule, dot) ==
  /\ dot \in 0 .. k - 1
  /\ s[k - dot] \in Starts(Left(rule))
  /\ \A j \in 1 .. dot : Stos(s[k - dot + j]) = Right(rule, j)

\* The inductive invariant of the stack: the item of each state holds, and what
\* a rule has made began where it could.
Linked(s) ==
  /\ Len(s) > 0
  /\ s[1] = 0
  /\ \A k \in 2 .. Len(s) :
       /\ s[k] # 0
       /\ Holds(s, k, Entry(itemRule, s[k]), Entry(itemDot, s[k]))
       /\ Stos(s[k]) >= yyntokens => s[k - 1] \in Starts(Stos(s[k]))

LEMMA HoldsBelow ==
  ASSUME NEW s \in Seq(States), NEW t \in Seq(States), NEW k \in Nat, \A i \in 1 .. k : t[i] = s[i],
         NEW rule, NEW dot, Holds(s, k, rule, dot)
  PROVE  Holds(t, k, rule, dot)
<1>1. dot \in 0 .. k - 1 /\ k - dot \in 1 .. k
  BY DEF Holds
<1>2. \A j \in 1 .. dot : k - dot + j \in 1 .. k
  BY <1>1
<1> QED BY <1>1, <1>2 DEF Holds

LEMMA LinkedBelow ==
  ASSUME NEW s \in Seq(States), NEW t \in Seq(States), Linked(s), Len(t) \in 1 .. Len(s),
         \A i \in 1 .. Len(t) : t[i] = s[i]
  PROVE  Linked(t)
<1>1. Len(t) > 0 /\ t[1] = 0
  BY DEF Linked
<1>2. ASSUME NEW k \in 2 .. Len(t)
      PROVE  /\ t[k] # 0
             /\ Holds(t, k, Entry(itemRule, t[k]), Entry(itemDot, t[k]))
             /\ Stos(t[k]) >= yyntokens => t[k - 1] \in Starts(Stos(t[k]))
  <2>1. k \in 2 .. Len(s) /\ k \in Nat /\ t[k] = s[k] /\ t[k - 1] = s[k - 1]
        /\ \A i \in 1 .. k : t[i] = s[i]
    OBVIOUS
  <2>2. Holds(s, k, Entry(itemRule, s[k]), Entry(itemDot, s[k]))
    BY <2>1 DEF Linked
  <2>3. Holds(t, k, Entry(itemRule, s[k]), Entry(itemDot, s[k]))
    BY <2>1, <2>2, HoldsBelow
  <2> QED BY <2>1, <2>3 DEF Linked
<1> QED BY <1>1, <1>2 DEF Linked

\* Of the symbols a rule begins with, the first has been read, and made where
\* the rule could begin.
LEMMA Opened ==
  ASSUME NEW s \in Seq(States), Linked(s), NEW rule, <<Stos(s[Len(s)]), Left(rule)>> \in Opens,
         Stos(s[Len(s)]) = Right(rule, 1)
  PROVE  Holds(s, Len(s), rule, 1)
<1> DEFINE n == Len(s)
<1>1. Stos(s[n]) \in 100 .. 121 /\ Starts(Stos(s[n])) \subseteq Starts(Left(rule))
  BY OpensStarts
<1>2. Stos(0) = 0
  BY DEF Stos, Entry, yystos
<1>3. n \in Nat /\ n > 1
  BY SMTT(30), <1>1, <1>2 DEF Linked
<1>4. s[n - 1] \in Starts(Left(rule))
  BY SMTT(30), <1>1, <1>3 DEF Linked, yyntokens
<1> HIDE DEF n
<1>5. 1 \in 0 .. n - 1 /\ \A j \in 1 .. 1 : j = 1 /\ n - 1 + j = n
  BY <1>3
<1>6. Holds(s, n, rule, 1)
  BY <1>4, <1>5 DEF Holds, n
<1> QED BY <1>6 DEF n

\* What a state follows goes on in its rule.
LEMMA Extended ==
  ASSUME NEW s \in Seq(States), Linked(s),
         NEW q \in States, q # 0, Follows(s[Len(s)], q),
         Stos(q) >= yyntokens => s[Len(s)] \in Starts(Stos(q))
  PROVE  Linked(Append(s, q))
<1> DEFINE n == Len(s)
           t == Append(s, q)
           p == s[n]
           rule == Entry(itemRule, q)
           dot == Entry(itemDot, q)
<1>1. /\ n \in Nat \ {0} /\ t \in Seq(States) /\ Len(t) = n + 1
      /\ \A i \in 1 .. n : t[i] = s[i]
      /\ t[n + 1] = q /\ p \in States
  BY DEF Linked
<1>2. dot \in 1 .. 11 /\ Right(rule, dot) = Stos(q)
  BY ItemOfState
<1>3. Holds(t, n + 1, rule, dot)
  <2>1. Follows(p, q)
    OBVIOUS
  <2>2. Linked(s)
    OBVIOUS
  <2>3. ASSUME Holds(s, n, rule, dot - 1)
        PROVE  Holds(t, n + 1, rule, dot)
    <3> HIDE DEF n, t, p, rule, dot
    <3>1. Holds(t, n, rule, dot - 1)
      BY <1>1, <2>3, HoldsBelow
    <3>2. dot - 1 \in 0 .. n - 1 /\ n - (dot - 1) = (n + 1) - dot
      BY <1>1, <1>2, <3>1 DEF Holds
    <3>3. dot \in 0 .. (n + 1) - 1 /\ t[(n + 1) - dot] \in Starts(Left(rule))
      BY <1>1, <1>2, <3>1, <3>2 DEF Holds
    <3>4. ASSUME NEW j \in 1 .. dot
          PROVE  Stos(t[(n + 1) - dot + j]) = Right(rule, j)
      <4>1. CASE j = dot
        <5>1. (n + 1) - dot + j = n + 1
          BY <1>1, <1>2, <4>1
        <5> QED BY <1>1, <1>2, <4>1, <5>1
      <4>2. CASE j \in 1 .. dot - 1
        BY <3>1, <3>2, <4>2 DEF Holds
      <4> QED BY <1>2, <4>1, <4>2
    <3> QED BY <3>3, <3>4 DEF Holds
  <2>4. CASE dot = 1 /\ p \in Starts(Left(rule))
    <3> HIDE DEF n, t, rule, dot
    <3>1. dot - 1 = 0 /\ n - 0 = n /\ 0 \in 0 .. n - 1 /\ 1 .. 0 = {}
      BY <1>1, <2>4
    <3>2. Holds(s, n, rule, dot - 1)
      BY <2>4, <3>1 DEF Holds
    <3> QED BY <2>3, <3>2
  <2>5. CASE /\ dot > 1 /\ Entry(itemDot, p) = dot - 1
             /\ Entry(itemRule, p) = rule \/ <<Entry(itemRule, p), rule, dot - 1>> \in Shares
    <3>1. Entry(itemDot, 0) = 0
      BY DEF Entry, itemDot
    <3> HIDE DEF n, t, rule, dot
    <3>2. n > 1
      BY <1>1, <1>2, <2>2, <2>5, <3>1 DEF Linked, n
    <3>3. n \in 2 .. Len(s) /\ p = s[n]
      BY <1>1, <3>2 DEF n
    <3>4. Holds(s, n, Entry(itemRule, p), dot - 1)
      BY <2>2, <2>5, <3>3 DEF Linked
    <3>5. CASE Entry(itemRule, p) = rule
      BY <2>3, <3>4, <3>5
    <3>6. CASE <<Entry(itemRule, p), rule, dot - 1>> \in Shares
      <4> DEFINE item == Entry(itemRule, p)
      <4>1. /\ Starts(Left(item)) \subseteq Starts(Left(rule))
            /\ \A j \in 1 .. dot - 1 : Right(item, j) = Right(rule, j)
        BY <3>6, SharesRule
      <4>2. Holds(s, n, rule, dot - 1)
        BY <3>4, <4>1 DEF Holds
      <4> QED BY <2>3, <4>2
    <3> QED BY <2>5, <3>5, <3>6
  <2>6. CASE dot = 2 /\ Stos(p) = Right(rule, 1) /\ <<Stos(p), Left(rule)>> \in Opens
    <3> HIDE DEF rule, dot
    <3>1. Holds(s, n, rule, 1) /\ dot - 1 = 1
      BY <2>2, <2>6, Opened
    <3> QED BY <2>3, <3>1
  <2> QED BY <2>1, <2>4, <2>5, <2>6 DEF Follows
<1>4. ASSUME NEW k \in 2 .. n + 1
      PROVE  /\ t[k] # 0
             /\ Holds(t, k, Entry(itemRule, t[k]), Entry(itemDot, t[k]))
             /\ Stos(t[k]) >= yyntokens => t[k - 1] \in Starts(Stos(t[k]))
  <2>1. CASE k = n + 1
    <3>1. t[k] = q /\ t[k - 1] = p
      BY <1>1, <2>1
    <3> QED BY <1>3, <2>1, <3>1
  <2>2. CASE k \in 2 .. n
    <3> HIDE DEF t
    <3>1. k \in Nat /\ t[k] = s[k] /\ t[k - 1] = s[k - 1] /\ \A i \in 1 .. k : t[i] = s[i]
      BY <1>1, <2>2
    <3>2. Holds(s, k, Entry(itemRule, s[k]), Entry(itemDot, s[k]))
      BY <2>2 DEF Linked
    <3>3. Holds(t, k, Entry(itemRule, s[k]), Entry(itemDot, s[k]))
      BY <1>1, <3>1, <3>2, HoldsBelow
    <3> QED BY <2>2, <3>1, <3>3 DEF Linked
  <2> QED BY <1>1, <2>1, <2>2
<1>5. Len(t) > 0 /\ t[1] = 0
  BY <1>1 DEF Linked
<1> HIDE DEF t, n
<1>6. Linked(t)
  BY <1>1, <1>4, <1>5 DEF Linked
<1> QED BY <1>6 DEF t

\* A rule that is complete on top of the stack lies on it from where it could
\* begin.
LEMMA Complete ==
  ASSUME NEW s \in Seq(States), Linked(s), NEW rule \in Rules, Completes(s[Len(s)], rule)
  PROVE  Holds(s, Len(s), rule, Entry(yyr2, rule))
<1> DEFINE n == Len(s)
           q == s[n]
           length == Entry(yyr2, rule)
           item == Entry(itemRule, q)
           dot == Entry(itemDot, q)
<1>1. n \in Nat \ {0} /\ q \in States /\ Linked(s) /\ Completes(q, rule)
  BY DEF Linked
<1>2. CASE length = 0 /\ q \in Starts(Left(rule))
  <2> HIDE DEF n, length
  <2>1. n - 0 = n /\ 0 \in 0 .. n - 1 /\ 1 .. 0 = {}
    BY <1>1
  <2> QED BY <1>2, <2>1 DEF Holds, length, n
<1>4. ASSUME q # 0, length = dot
      PROVE  Holds(s, n, item, length)
  <2> HIDE DEF length, dot, item
  <2>1. n \in 2 .. Len(s)
    BY <1>1, <1>4 DEF Linked
  <2> QED BY <1>1, <1>4, <2>1 DEF Linked, item, dot
<1>5. item = rule \/ <<item, rule, dot>> \in Shares => q # 0
  <2>1. Entry(itemRule, 0) = 1 /\ Entry(itemDot, 0) = 0
    BY DEF Entry, itemRule, itemDot
  <2>2. 1 # rule /\ <<1, rule, 0>> \notin Shares
    BY DEF Rules, Shares
  <2> QED BY <2>1, <2>2
<1>6. CASE q # 0 /\ length = dot /\ item = rule
  <2> HIDE DEF length, dot, item, n, q
  <2> QED BY <1>4, <1>6 DEF length, n
<1>7. CASE q # 0 /\ length = dot /\ <<item, rule, dot>> \in Shares
  <2> HIDE DEF length, dot, item, n, q
  <2>1. Holds(s, n, item, length)
    BY <1>4, <1>7
  <2>2. /\ Starts(Left(item)) \subseteq Starts(Left(rule))
        /\ \A j \in 1 .. length : Right(item, j) = Right(rule, j)
    BY <1>7, SharesRule
  <2>3. Holds(s, n, rule, length)
    BY <2>1, <2>2 DEF Holds
  <2> QED BY <2>3 DEF length, n
<1> HIDE DEF length, item, dot, n, q
<1> QED BY <1>1, <1>2, <1>5, <1>6, <1>7 DEF Completes, length, item, dot, n, q

-----------------------------------------------------------------------------
(***************************************************************************)
(* The steps.                                                              *)
(***************************************************************************)

IsStack(stack) == IsSequence(stack) /\ Len(stack) > 0
StatesOf(stack) == [k \in 1 .. Len(stack) |-> stack[k].state]

LEMMA StatesPushed ==
  ASSUME NEW S, NEW stack \in Seq(S), NEW state, NEW value
  PROVE  LET new == Pushed(stack, state, value) IN
         IsStack(new) /\ StatesOf(new) = Append(StatesOf(stack), state)
<1> DEFINE x == [state |-> state, content |-> value]
           new == Append(stack, x)
<1>1. /\ new \in Seq(S \cup {x}) /\ Len(new) = Len(stack) + 1 /\ new[Len(new)] = x
      /\ \A k \in 1 .. Len(stack) : new[k] = stack[k]
  OBVIOUS
<1>2. x.state = state /\ Len(stack) \in Nat
  OBVIOUS
<1> HIDE DEF x
<1>3. IsStack(new)
  BY <1>1, <1>2 DEF IsStack, IsSequence
<1> HIDE DEF new
<1>4. StatesOf(new) = Append(StatesOf(stack), state)
  BY <1>1, <1>2 DEF StatesOf
<1> QED BY <1>3, <1>4 DEF Pushed, x, new

LEMMA StatesBelow ==
  ASSUME NEW S, NEW stack \in Seq(S), NEW n \in 1 .. Len(stack)
  PROVE  LET below == SubSeq(stack, 1, n) IN
         /\ below \in Seq(S) /\ Len(below) = n
         /\ StatesOf(below) = [k \in 1 .. n |-> StatesOf(stack)[k]]
<1>1. LET below == SubSeq(stack, 1, n) IN
      below \in Seq(S) /\ Len(below) = n /\ \A k \in 1 .. n : below[k] = stack[k]
  OBVIOUS
<1> QED BY <1>1 DEF StatesOf

\* Each state on the stack goes on in its item from where the item could begin.  A
\* state that acts is on top only until it has, which is before the next token is
\* read.
Inv ==
  /\ IsSequence(output)
  /\ Parsing =>
       /\ IsStack(yystack)
       /\ StatesOf(yystack) \in Seq(States)
       /\ Linked(StatesOf(yystack))
       /\ yyla # <<>> => Top \notin LineStates

LEMMA TopOfStates ==
  ASSUME IsStack(yystack), StatesOf(yystack) \in Seq(States)
  PROVE  LET s == StatesOf(yystack) IN
         Len(s) = Len(yystack) /\ Len(s) \in Nat \ {0} /\ Top = s[Len(s)] /\ Top \in States
<1> DEFINE s == StatesOf(yystack)
<1>1. Len(yystack) \in Nat \ {0}
  BY DEF IsStack, IsSequence
<1>2. Len(s) = Len(yystack) /\ \A k \in 1 .. Len(yystack) : s[k] = yystack[k].state
  BY <1>1 DEF StatesOf
<1> HIDE DEF s
<1>3. Top = s[Len(s)] /\ Len(s) \in Nat \ {0}
  BY <1>1, <1>2 DEF Top
<1>4. s \in Seq(States)
  BY DEF s
<1>5. Top \in States
  BY <1>3, <1>4
<1> QED BY <1>1, <1>2, <1>3, <1>5 DEF s

\* A token is shifted to a state that goes on with it.
LEMMA Translated ==
  ASSUME NEW type
  PROVE  LET x == yytranslate(type) IN
         x \in 0 .. 98 /\ (x = 2 \/ Entry(yytname, x) = type)
<1> DEFINE numbers == {i \in 1 .. yyntokens : yytname[i] = type}
           c == CHOOSE i \in numbers : TRUE
<1>1. CASE numbers = {}
  BY <1>1 DEF yytranslate
<1>2. CASE numbers # {}
  <2>1. c \in numbers
    BY Zenon, <1>2
  <2>2. c \in 1 .. 99 /\ yytname[c] = type
    BY Zenon, <2>1 DEF yyntokens
  <2>3. yytranslate(type) = c - 1
    BY <1>2 DEF yytranslate
  <2> HIDE DEF c
  <2> QED BY <2>2, <2>3 DEF Entry
<1> QED BY <1>1, <1>2

LEMMA NoUndefined == \A q \in States : Stos(q) # 2
BY DEF States, Stos, Entry, yystos

LEMMA Shifted ==
  ASSUME Top \in States, Deciding, Decided > 0
  PROVE  /\ Decided \in States /\ Decided # 0 /\ Follows(Top, Decided)
         /\ Stos(Decided) < yyntokens /\ Symbol(Decided) = yyla[1].type
<1> DEFINE token == IF yyla = <<>> THEN NoToken ELSE yyla[1]
           x == yytranslate(token.type)
           i == Entry(yypact, Top) + x
           default == -Entry(yydefact, Top)
           q == Entry(yytable, i)
<1>1. Top # yyfinal /\ Entry(yydefact, Top) \in Rules \cup {0}
  BY RuleOfState DEF Deciding
<1>2. ~(default > 0)
  <2> DEFINE d == Entry(yydefact, Top)
  <2>1. d \in Rules \cup {0}
    BY <1>1
  <2> HIDE DEF d
  <2> QED BY <2>1 DEF Rules, d
<1>3. x \in 0 .. 98 /\ (x = 2 \/ Entry(yytname, x) = token.type)
  BY Translated
<1> HIDE DEF token, x, default
<1>4. /\ ~Consistent(Top) /\ i \in 0 .. yylast /\ Entry(yycheck, i) = x
      /\ Decided = q
  <2>1. Decided = IF Consistent(Top) THEN default
                  ELSE IF i \notin 0 .. yylast THEN default
                  ELSE IF Entry(yycheck, i) # x THEN default
                  ELSE IF q = yytable_ninf THEN 0 ELSE q
    BY DEF Decided, Decision, token, x, default
  <2> HIDE DEF i, q
  <2>2. ~(0 > 0)
    OBVIOUS
  <2> QED BY <1>2, <2>1, <2>2
<1>5. token = yyla[1]
  BY <1>4 DEF Deciding, token
<1>6. q \in States
  BY <1>4, TableTyped
<1>7. Entry(yypact, Top) # yypact_ninf /\ Entry(yypact, Top) \in Int
  <2>1. \A p \in States : Entry(yypact, p) \in Int
    BY DEF States, Entry, yypact
  <2> QED BY <1>4, <2>1 DEF Consistent
<1>8. i = Entry(yypact, Top) + x /\ x \in Nat /\ x < yyntokens
  BY <1>3 DEF yyntokens
<1> HIDE DEF i
<1>9. q # 0 /\ Stos(q) = x /\ Follows(Top, q)
  BY <1>4, <1>6, <1>7, <1>8, ShiftFollows
<1> HIDE DEF q
<1>10. x # 2
  BY <1>6, <1>9, NoUndefined
<1> QED BY <1>3, <1>4, <1>5, <1>6, <1>8, <1>9, <1>10 DEF Symbol, Stos

\* A rule's left side leads from where the rule began to a state that goes on with
\* it.
LEMMA WentTo ==
  ASSUME NEW symbol \in 100 .. 121, NEW p \in States, p \in Starts(symbol)
  PROVE  LET q == GoTo(p, symbol) IN
         /\ q \in States /\ q # 0 /\ Stos(q) = symbol /\ Follows(p, q)
         /\ q \in LineStates => symbol \in LineSymbols
BY GoToTyped, GoToFollows DEF yyntokens

\* What is reduced lies on the stack.
LEMMA Reduced ==
  ASSUME Inv, Deciding, Decided < 0
  PROVE  LET rule == -Decided
             s == StatesOf(yystack)
         IN  /\ rule \in Rules /\ rule = Entry(yydefact, Top)
             /\ Holds(s, Len(s), rule, Entry(yyr2, rule))
<1> DEFINE rule == -Decided
           s == StatesOf(yystack)
<1>1. /\ s \in Seq(States) /\ Linked(s) /\ IsStack(yystack) /\ Top # yyfinal
      /\ Top = s[Len(s)] /\ Top \in States
  BY TopOfStates DEF Inv, Deciding
<1>2. rule \in Rules /\ rule = Entry(yydefact, Top)
  BY <1>1, DecidedTyped
<1>3. Entry(yydefact, Top) # 0
  BY <1>2 DEF Rules
<1>4. Completes(Top, Entry(yydefact, Top))
  BY <1>1, <1>3, Completed
<1> HIDE DEF rule, s
<1>5. Completes(s[Len(s)], rule)
  BY <1>1, <1>2, <1>4
<1>6. Holds(s, Len(s), rule, Entry(yyr2, rule))
  BY <1>1, <1>2, <1>5, Complete
<1> QED BY <1>2, <1>6 DEF rule, s

LEMMA InitInv == Init => Inv
<1> SUFFICES ASSUME Init PROVE Inv
  OBVIOUS
<1> DEFINE bottom == Pushed(<<>>, 0, <<>>)
           s == StatesOf(bottom)
<1>1. IsStack(bottom) /\ s = Append(StatesOf(<<>>), 0)
  <2>1. <<>> \in Seq({})
    OBVIOUS
  <2> HIDE DEF bottom
  <2> QED BY <2>1, StatesPushed DEF bottom
<1>2. StatesOf(<<>>) = <<>>
  BY DEF StatesOf
<1>3. yystack = bottom /\ yyla = <<>> /\ output = <<>>
  BY DEF Init, bottom
<1> HIDE DEF bottom, s
<1>4. s = Append(<<>>, 0)
  BY <1>1, <1>2
<1>5. s \in Seq(States) /\ Linked(s)
  <2>1. 0 \in States
    BY DEF States
  <2>2. s \in Seq(States) /\ Len(s) = 1 /\ s[1] = 0
    <3>1. <<>> \in Seq(States)
      OBVIOUS
    <3> QED BY <1>4, <2>1, <3>1
  <2>3. Len(s) > 0 /\ \A k \in 2 .. Len(s) : FALSE
    BY <2>2
  <2> QED BY <2>2, <2>3 DEF Linked
<1> QED BY <1>1, <1>3, <1>5, TuplesAreSequences DEF Inv, s

\* What is pushed: a state that follows the top.
LEMMA PushInv ==
  ASSUME NEW S, NEW stack \in Seq(S), StatesOf(stack) \in Seq(States), Linked(StatesOf(stack)),
         NEW q \in States, q # 0, NEW value, Follows(StatesOf(stack)[Len(stack)], q),
         Stos(q) >= yyntokens => StatesOf(stack)[Len(stack)] \in Starts(Stos(q)),
         yystack' = Pushed(stack, q, value)
  PROVE  /\ IsStack(yystack') /\ StatesOf(yystack') \in Seq(States) /\ Linked(StatesOf(yystack'))
         /\ Top' = q
<1> DEFINE s == StatesOf(stack)
           new == Pushed(stack, q, value)
           t == StatesOf(new)
<1>1. IsStack(new) /\ t = Append(s, q)
  BY StatesPushed
<1>2. Len(s) = Len(stack)
  BY DEF StatesOf
<1>3. Linked(Append(s, q)) /\ Append(s, q) \in Seq(States)
  <2> HIDE DEF s
  <2> QED BY <1>2, Extended DEF s
<1>4. new[Len(new)].state = q
  BY DEF Pushed
<1> HIDE DEF s, new, t
<1>5. IsStack(yystack') /\ StatesOf(yystack') = t
  BY <1>1 DEF new, t
<1>6. Top' = q
  BY <1>4 DEF Top, new
<1> QED BY <1>1, <1>3, <1>5, <1>6

LEMMA StepInv ==
  Inv /\ [Next]_vars => Inv' /\ (output' # output \/ flag' # flag => yyla = <<>>)
<1> SUFFICES ASSUME Inv, [Next]_vars
             PROVE  Inv' /\ (output' # output \/ flag' # flag => yyla = <<>>)
  OBVIOUS
<1>0. outcome' # "parsing" /\ UNCHANGED output => Inv'
  BY DEF Inv, Parsing
<1>1. CASE ReadToken
  <2>1. UNCHANGED <<flag, output>> /\ Parsing /\ ~Consistent(Top)
    BY <1>1 DEF ReadToken, Reading
  <2>2. outcome' = "parsing" => UNCHANGED yystack
    BY <1>1 DEF ReadToken, Continue, Token, Throws, Hangs
  <2>3. Top \notin LineStates
    BY <2>1, LineConsistent
  <2> QED BY <2>1, <2>2, <2>3 DEF Inv, Parsing, Top
<1>2. CASE Shift
  <2>1. /\ Deciding /\ Decided > 0 /\ yyla' = <<>> /\ UNCHANGED <<flag, output>>
        /\ yystack' = Pushed(yystack, Decided, yyla[1].value)
    BY <1>2 DEF Shift
  <2>2. /\ IsStack(yystack) /\ StatesOf(yystack) \in Seq(States) /\ Linked(StatesOf(yystack))
    BY <2>1 DEF Inv, Deciding
  <2>3. Top \in States /\ Top = StatesOf(yystack)[Len(yystack)]
    BY <2>2, TopOfStates
  <2>4. /\ Decided \in States /\ Decided # 0 /\ Follows(Top, Decided)
        /\ Stos(Decided) < yyntokens /\ Stos(Decided) \in Int
    <3>1. \A q \in States : Stos(q) \in Int
      BY DEF States, Stos, Entry, yystos
    <3> QED BY <2>1, <2>3, <3>1, Shifted
  <2>5. ~(Stos(Decided) >= yyntokens)
    <3> DEFINE e == Stos(Decided)
    <3>1. e \in Int /\ e < yyntokens
      BY <2>4
    <3> HIDE DEF e
    <3> QED BY <3>1 DEF yyntokens, e
  <2>6. PICK S : yystack \in Seq(S)
    BY <2>2 DEF IsStack, IsSequence
  <2> DEFINE q == Decided
  <2> HIDE DEF q
  <2>7. IsStack(yystack') /\ StatesOf(yystack') \in Seq(States) /\ Linked(StatesOf(yystack'))
    BY <2>1, <2>2, <2>3, <2>4, <2>5, <2>6, PushInv DEF q
  <2> QED BY <2>1, <2>7 DEF Inv
<1>3. CASE Reduce
  <2> DEFINE rule == -Decided
             length == Entry(yyr2, rule)
             symbol == Entry(yyr1, rule)
             rest == SubSeq(yystack, 1, Len(yystack) - length)
             v == [i \in 1 .. length |-> yystack[Len(rest) + i].content]
             below == [i \in 0 .. Len(yystack) - 1 |-> yystack[Len(yystack) - i].content]
             next == GoTo(rest[Len(rest)].state, symbol)
             s == StatesOf(yystack)
             n == Len(yystack) - length
             p == s[n]
  <2>1. /\ Deciding /\ Decided < 0 /\ UNCHANGED yyla
        /\ yystack' = Pushed(rest, next, Made(rule, v))
        /\ output' = output \o Effects(rule, v, below)
        /\ flag' = Mode(rule)
    BY <1>3 DEF Reduce
  <2>2. /\ IsStack(yystack) /\ s \in Seq(States) /\ Linked(s) /\ IsSequence(output)
    BY <2>1 DEF Inv, Deciding
  <2>3. /\ Top \in States /\ Top # yyfinal /\ Len(s) = Len(yystack) /\ Len(s) \in Nat \ {0}
    BY <2>1, <2>2, TopOfStates DEF Deciding
  <2>4. rule \in Rules /\ rule = Entry(yydefact, Top) /\ Holds(s, Len(s), rule, length)
    BY <2>1, Reduced
  <2>5. /\ symbol \in 100 .. 121 /\ symbol = Left(rule)
        /\ symbol \in LineSymbols => rule \in LineRules
    BY <2>4, SymbolOfRule DEF Left
  <2>6. PICK S : yystack \in Seq(S)
    BY <2>2 DEF IsStack, IsSequence
  <2> HIDE DEF rule, length, symbol, v, below, s
  <2>7. length \in 0 .. Len(s) - 1 /\ n \in 1 .. Len(yystack) /\ p \in Starts(symbol)
    BY <2>3, <2>4, <2>5 DEF Holds
  <2> HIDE DEF n
  <2>8. rest \in Seq(S) /\ Len(rest) = n /\ StatesOf(rest) = [k \in 1 .. n |-> s[k]]
    BY <2>6, <2>7, StatesBelow DEF n, s
  <2>9. StatesOf(rest) \in Seq(States) /\ Len(StatesOf(rest)) = n /\ n \in Nat \ {0} /\ p \in States
        /\ \A k \in 1 .. n : StatesOf(rest)[k] = s[k]
    BY <2>2, <2>3, <2>7, <2>8
  <2>10. Linked(StatesOf(rest))
    BY <2>2, <2>3, <2>7, <2>9, LinkedBelow
  <2>11. rest[Len(rest)].state = p /\ StatesOf(rest)[Len(rest)] = p
    <3> HIDE DEF rest
    <3>1. StatesOf(rest)[n] = rest[n].state
      BY <2>8, <2>9 DEF StatesOf
    <3> QED BY <2>8, <2>9, <3>1
  <2> HIDE DEF rest, p
  <2>12. /\ next \in States /\ next # 0 /\ Stos(next) = symbol /\ Follows(p, next)
         /\ next \in LineStates => symbol \in LineSymbols
    BY <2>5, <2>7, <2>9, <2>11, WentTo
  <2> HIDE DEF next
  <2>13. /\ IsStack(yystack') /\ StatesOf(yystack') \in Seq(States) /\ Linked(StatesOf(yystack'))
         /\ Top' = next
    BY <2>1, <2>7, <2>8, <2>9, <2>10, <2>11, <2>12, PushInv
  <2>14. yyla # <<>> => rule \notin LineRules
    BY <2>1, <2>3, <2>4 DEF Inv, Deciding, LineStates
  <2>15. IsSequence(output')
    BY <2>1, <2>2, <2>4, EffectsAreSequence, Concatenated
  <2>16. yyla # <<>> => UNCHANGED <<output, flag>>
    <3>1. PICK T : output \in Seq(T)
      BY <2>2 DEF IsSequence
    <3>2. output \o <<>> = output
      BY <3>1
    <3> QED BY <2>1, <2>4, <2>14, <3>2, OnlyLinesAct
  <2> QED BY <2>1, <2>5, <2>12, <2>13, <2>14, <2>15, <2>16 DEF Inv
<1>4. CASE ReduceThrows
  BY <1>0, <1>4 DEF ReduceThrows
<1>5. CASE SyntaxError
  BY <1>0, <1>5 DEF SyntaxError
<1>6. CASE Accept
  BY <1>0, <1>6 DEF Accept
<1>7. CASE UNCHANGED vars
  BY <1>7 DEF vars, Inv, Parsing, Top
<1> QED BY <1>1, <1>2, <1>3, <1>4, <1>5, <1>6, <1>7 DEF Next

-----------------------------------------------------------------------------
(***************************************************************************)
(* What the stack shows.                                                   *)
(***************************************************************************)

\* A rule that lies whole on the stack is spelled by the symbols of the states.
LEMMA Spells ==
  ASSUME IsStack(yystack), NEW rule \in 1 .. 131,
         Holds(StatesOf(yystack), Len(yystack), rule, Entry(yyr2, rule))
  PROVE  RuleOf(rule, OnTop(Entry(yyr2, rule))) \in Grammar
<1> DEFINE s == StatesOf(yystack)
           N == Len(yystack)
           n == Entry(yyr2, rule)
<1>1. N \in Nat \ {0} /\ \A k \in 1 .. N : s[k] = yystack[k].state
  BY DEF IsStack, IsSequence, StatesOf
<1>2. n \in 0 .. N - 1 /\ \A j \in 1 .. n : Stos(s[N - n + j]) = Right(rule, j)
  BY DEF Holds
<1> HIDE DEF n, N
<1>3. \A j \in 1 .. n : N - n + j \in 1 .. N
  BY <1>1, <1>2
<1>4. ASSUME NEW j \in 1 .. n
      PROVE  Symbol(yystack[N - n + j].state) = Named(rule, j)
  <2>1. Stos(yystack[N - n + j].state) = Right(rule, j)
    BY <1>1, <1>2, <1>3
  <2> QED BY <2>1 DEF Symbol, Named, Stos
<1>5. OnTop(n) = [j \in 1 .. n |-> Named(rule, j)]
  BY <1>4 DEF OnTop, N
<1> QED BY <1>5, Sides DEF n

LEMMA InvFollows == Inv => FollowsGrammar
<1> SUFFICES ASSUME Inv PROVE FollowsGrammar
  OBVIOUS
<1> DEFINE s == StatesOf(yystack)
           N == Len(yystack)
<1>1. ASSUME Parsing
      PROVE  /\ IsStack(yystack) /\ s \in Seq(States) /\ Linked(s)
             /\ Len(s) = N /\ N \in Nat \ {0} /\ Top = s[N] /\ Top \in States
  BY <1>1, TopOfStates DEF Inv
<1>2. ASSUME Deciding, Decided < 0
      PROVE  LET rule == -Decided
                 length == Entry(yyr2, rule)
                 below == yystack[Len(yystack) - length].state
             IN  /\ length < Len(yystack)
                 /\ Rule(rule, Symbol(GoTo(below, Entry(yyr1, rule))), OnTop(length)) \in Grammar
  <2> DEFINE rule == -Decided
             length == Entry(yyr2, rule)
             below == yystack[N - length].state
             q == GoTo(below, Entry(yyr1, rule))
  <2>1. /\ IsStack(yystack) /\ s \in Seq(States) /\ Len(s) = N /\ N \in Nat \ {0}
    BY <1>1, <1>2 DEF Deciding
  <2>2. rule \in Rules /\ Holds(s, N, rule, length)
    BY <1>2, <2>1, Reduced
  <2> HIDE DEF rule
  <2>3. RuleOf(rule, OnTop(length)) \in Grammar
    <3>1. rule \in 1 .. 131
      BY <2>2 DEF Rules
    <3> HIDE DEF length
    <3>2. Holds(StatesOf(yystack), Len(yystack), rule, Entry(yyr2, rule))
      BY <2>2 DEF length
    <3>3. RuleOf(rule, OnTop(Entry(yyr2, rule))) \in Grammar
      BY <2>1, <3>1, <3>2, Spells
    <3> QED BY <3>3 DEF length
  <2>4. Left(rule) \in 100 .. 121
    BY <2>2, SymbolOfRule DEF Left
  <2>5. length \in 0 .. N - 1 /\ s[N - length] \in Starts(Left(rule))
    BY <2>2 DEF Holds
  <2> HIDE DEF length
  <2>6. N - length \in 1 .. N
    BY <2>1, <2>5
  <2>7. s[N - length] = below /\ s[N - length] \in States
    BY <2>1, <2>6 DEF StatesOf
  <2>8. Stos(q) = Left(rule)
    BY <2>4, <2>5, <2>7, WentTo DEF Left
  <2>9. length < N
    BY <2>1, <2>5
  <2> QED BY <2>3, <2>8, <2>9 DEF RuleOf, Symbol, Stos, rule, length
<1>3. ASSUME Deciding, Decided > 0
      PROVE  Symbol(Decided) = yyla[1].type
  BY <1>1, <1>3, Shifted DEF Deciding
<1>4. ASSUME Parsing, Top = yyfinal
      PROVE  Rule(1, "$accept", OnTop(N - 1)) \in Grammar
  <2>1. /\ IsStack(yystack) /\ s \in Seq(States) /\ Linked(s) /\ Len(s) = N /\ N \in Nat \ {0}
        /\ s[N] = 2
    BY <1>1, <1>4 DEF yyfinal
  <2>2. /\ Entry(itemRule, 2) = 1 /\ Entry(itemDot, 2) = 2 /\ Starts(99) = {0} /\ Left(1) = 99
        /\ Entry(yyr2, 1) = 2 /\ Entry(yytname, 99) = "$accept"
    BY DEF Entry, itemRule, itemDot, Starts, Left, yyr1, yyr2, yytname
  <2> HIDE DEF s, N
  <2>3. N \in 2 .. N
    BY <2>1 DEF Linked
  <2>4. Holds(s, N, 1, 2)
    BY <2>1, <2>2, <2>3 DEF Linked
  <2>5. N - 2 \in 1 .. N /\ s[N - 2] = 0
    BY <2>1, <2>2, <2>4 DEF Holds
  <2>6. N = 3
    BY <2>1, <2>5 DEF Linked
  <2>7. RuleOf(1, OnTop(Entry(yyr2, 1))) \in Grammar
    BY <2>1, <2>2, <2>4, Spells DEF s, N
  <2> QED BY <2>2, <2>6, <2>7 DEF RuleOf
<1> QED BY <1>2, <1>3, <1>4 DEF FollowsGrammar

-----------------------------------------------------------------------------
\* Nothing is assembled, defined, inserted or switched behind a token that has
\* been read, whatever the text.
THEOREM ActionsInTime == Spec => ActsBetweenTokens
BY InitInv, StepInv, PTL DEF Spec, ActsBetweenTokens

\* Whatever the text, the parser derives it by the grammar of assembler.yy: what it
\* reduces by a rule is the rule's right side, whole, and what it accepts is a
\* sequence of statements.
THEOREM DerivesByGrammar == Spec => []FollowsGrammar
BY InitInv, StepInv, InvFollows, PTL DEF Spec

=============================================================================
