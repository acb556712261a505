------------------------- MODULE KlangParserProofs -------------------------
(***************************************************************************)
(* Why klang's lexer never reads a token in the wrong mode, whatever the   *)
(* text, and why the automaton of the tables derives it by the grammar of  *)
(* compiler.yy: what the tables say of each state, and what they make the  *)
(* stack be.                                                               *)
(***************************************************************************)
EXTENDS KlangParser, TLAPS

States == 0 .. 91
Rules == 2 .. 40

\* The rules that switch the mode, and the states that reduce by them.
SwitchingRules == {8, 9}
SwitchingStates == {25, 66}

-----------------------------------------------------------------------------
(***************************************************************************)
(* The tables.                                                             *)
(***************************************************************************)

LEMMA RuleOfState ==
  ASSUME NEW s \in States, s # yyfinal
  PROVE  /\ Entry(yydefact, s) \in Rules \cup {0}
         /\ Entry(yydefact, s) \in SwitchingRules => s \in SwitchingStates
BY DEF States, Rules, SwitchingRules, SwitchingStates, Entry, yydefact, yyfinal

LEMMA SymbolOfRule ==
  ASSUME NEW rule \in Rules
  PROVE  Entry(yyr1, rule) \in 35 .. 46 /\ Entry(yyr2, rule) \in Nat
BY DEF Rules, Entry, yyr1, yyr2

LEMMA TableTyped == \A i \in 0 .. yylast : Entry(yytable, i) \in States
BY DEF States, Entry, yytable, yylast

\* A state that switches the mode does so before a token is read.
LEMMA SwitchingConsistent == \A s \in SwitchingStates : Consistent(s)
BY DEF SwitchingStates, Consistent, Entry, yypact, yypact_ninf

\* What is done in a state: a shift, an error, or a reduction.
LEMMA DecisionTyped ==
  ASSUME NEW s \in States, s # yyfinal, NEW token
  PROVE  LET d == Decision(s, token) IN
         \/ d \in States
         \/ d = -Entry(yydefact, s)
<1> DEFINE symbol == yytranslate(token.type)
           i == Entry(yypact, s) + symbol
<1> HIDE DEF symbol
<1>1. i \in 0 .. yylast => Entry(yytable, i) \in States
  BY TableTyped
<1> HIDE DEF i
<1> QED BY <1>1 DEF Decision, i, symbol, States

LEMMA DecidedTyped ==
  ASSUME Top \in States, Top # yyfinal
  PROVE  /\ Decided > 0 => Decided \in States
         /\ Decided < 0 => -Decided \in Rules /\ -Decided = Entry(yydefact, Top)
<1> DEFINE token == IF yyla = <<>> THEN NoToken ELSE yyla[1]
           d == Entry(yydefact, Top)
<1> HIDE DEF token
<1>1. Decided \in States \/ Decided = -d
  BY DecisionTyped DEF Decided, token
<1>2. d \in Rules \cup {0}
  BY RuleOfState
<1> HIDE DEF d
<1>3. /\ Decided > 0 => Decided \in States
      /\ Decided < 0 => -Decided \in Rules /\ -Decided = d
  BY <1>1, <1>2 DEF States, Rules
<1> QED BY <1>3 DEF d

\* No reduction leads to a state that switches the mode: only the brace that
\* opens a block of assembly, and the string behind it, do.
LEMMA GoToTyped ==
  ASSUME NEW s, NEW symbol \in 35 .. 46
  PROVE  GoTo(s, symbol) \in States \ SwitchingStates
<1> DEFINE i == Entry(yypgoto, symbol - yyntokens) + s
<1>1. Entry(yydefgoto, symbol - yyntokens) \in States \ SwitchingStates
  BY DEF yyntokens, Entry, yydefgoto, States, SwitchingStates
<1>2. ASSUME i \in 0 .. yylast, Entry(yycheck, i) = s
      PROVE  Entry(yytable, i) \in States \ SwitchingStates
  <2>1. Entry(yytable, i) \in States
    BY <1>2, TableTyped
  <2>2. \A k \in 0 .. yylast :
          /\ Entry(yytable, k) = 25 => k = 1 /\ Entry(yycheck, k) = 28
          /\ Entry(yytable, k) = 66 => k = 24 /\ Entry(yycheck, k) = 15
    BY DEF yylast, Entry, yytable, yycheck
  <2>3. Entry(yypgoto, symbol - yyntokens) \in -40 .. 62
        /\ Entry(yypgoto, symbol - yyntokens) \notin {-27, 9}
    BY DEF yyntokens, Entry, yypgoto
  <2>4. Entry(yytable, i) # 25 /\ Entry(yytable, i) # 66
    <3> DEFINE e == Entry(yypgoto, symbol - yyntokens)
    <3>1. i = e + s
      OBVIOUS
    <3> HIDE DEF e, i
    <3> QED BY ONLY <1>2, <2>2, <2>3, <3>1 DEF e
  <2> QED BY <2>1, <2>4 DEF SwitchingStates
<1> HIDE DEF i
<1> QED BY <1>1, <1>2 DEF GoTo, i

-----------------------------------------------------------------------------
(***************************************************************************)
(* Items: how far the parser is, in a state, in which rule.  Of the rules  *)
(* a state may be in, its item is the one it is farthest in, or one of     *)
(* those; the others begin with the symbol of the state, or as that one    *)
(* does.                                                                   *)
(***************************************************************************)

itemRule ==
  <<1, 1, 1, 7, 10, 14, 13, 15, 16, 38, 40, 39, 5, 11, 23, 29, 30, 3, 6, 4, 36, 31, 33, 7, 22,
    10, 14, 13, 15, 16, 11, 23, 29, 30, 26, 27, 28, 24, 21, 19, 20, 6, 25, 36, 7, 22, 10, 14, 13,
    35, 15, 16, 11, 18, 23, 26, 27, 28, 24, 21, 19, 20, 37, 25, 36, 22, 10, 14, 13, 15, 16, 36,
    22, 10, 14, 13, 15, 16, 36, 10, 13, 15, 16, 36, 13, 15, 16, 36, 15, 36, 15, 36>>
itemDot ==
  <<0, 1, 2, 1, 1, 1, 1, 1, 1, 1, 1, 1, 1, 1, 1, 1, 1, 2, 1, 2, 1, 1, 1, 2, 1, 2, 2, 2, 2, 2, 2,
    2, 2, 2, 2, 2, 2, 2, 2, 2, 2, 2, 2, 2, 3, 2, 3, 3, 3, 1, 3, 3, 3, 2, 3, 3, 3, 3, 3, 3, 3, 3,
    1, 3, 3, 3, 4, 4, 4, 4, 4, 4, 4, 5, 5, 5, 5, 5, 5, 6, 6, 6, 6, 6, 7, 7, 7, 7, 8, 8, 9, 9>>

\* The right sides of the rules, one behind the other, from rule 1.
rightSides ==
  <<35, 0, 35, 36, 35, 42, 27, 40, 27, 3, 40, 27, 5, 28, 37, 15, 38, 27, 28, 39, 29, 7, 30, 40,
    31, 36, 7, 30, 40, 31, 36, 8, 36, 6, 30, 40, 31, 36, 9, 30, 41, 27, 41, 27, 41, 31, 36, 10,
    36, 6, 30, 40, 31, 27, 39, 36, 40, 21, 40, 40, 25, 40, 40, 19, 40, 44, 30, 41, 31, 30, 40, 31,
    40, 18, 40, 44, 20, 43, 40, 11, 40, 40, 12, 40, 40, 13, 40, 32, 40, 33, 40, 45, 44, 46, 40,
    44, 30, 41, 31, 20, 43, 28, 39, 29, 17, 14, 16, 15>>
rightOffset ==
  <<0, 2, 2, 4, 6, 7, 9, 12, 12, 12, 18, 21, 26, 33, 38, 47, 54, 54, 56, 59, 62, 65, 69, 72, 75,
    78, 81, 84, 87, 89, 91, 92, 93, 94, 94, 95, 104, 105, 106, 107>>
Right(rule, j) == rightSides[rightOffset[rule] + j]
Left(rule) == Entry(yyr1, rule)
Stos(state) == Entry(yystos, state)

\* The states a symbol's text may begin in.
Starts(symbol) ==
  CASE symbol \in {34, 35} -> {0}
    [] symbol = 36         -> {1, 8, 30, 67, 68, 80, 88, 89}
    [] symbol = 37         -> {25}
    [] symbol = 38         -> {66}
    [] symbol = 39         -> {13, 87}
    [] symbol = 41         -> {28, 43, 45, 69, 81}
    [] symbol = 42         -> {1}
    [] symbol = 43         -> {42, 78}
    [] symbol \in {40, 44, 45, 46} ->
         {1, 3, 8, 14, 15, 16, 26, 27, 28, 30, 34, 35, 36, 37, 38, 39, 40, 43, 45, 67, 68, 69, 70,
          80, 81, 88, 89}

\* The symbols that a left side may begin with wherever they may stand.
Opens == {<<35, 35>>, <<39, 39>>, <<40, 40>>, <<44, 40>>, <<45, 40>>, <<46, 40>>}

\* The rules that begin as another does, with how many symbols.
Shares == {<<13, 12, 5>>, <<36, 22, 4>>}

\* A state that may be pushed on another: it begins its rule, or goes on in it, or
\* goes on in one that the symbol below it has begun.
Follows(p, q) ==
  LET rule == Entry(itemRule, q)
      dot == Entry(itemDot, q)
  IN  \/ dot = 1 /\ p \in Starts(Left(rule))
      \/ dot > 1 /\ Entry(itemRule, p) = rule /\ Entry(itemDot, p) = dot - 1
      \/ dot = 2 /\ Stos(p) = Right(rule, 1) /\ <<Stos(p), Left(rule)>> \in Opens

\* A state in which a rule is complete.
Completes(q, rule) ==
  LET length == Entry(yyr2, rule)
      item == Entry(itemRule, q)
      dot == Entry(itemDot, q)
  IN  \/ length = 0 /\ q \in Starts(Left(rule))
      \/ length = 1 /\ Stos(q) = Right(rule, 1) /\ <<Stos(q), Left(rule)>> \in Opens
      \/ length = dot /\ item = rule
      \/ length = dot /\ <<item, rule, dot>> \in Shares

LEMMA ItemOfState ==
  ASSUME NEW q \in States \ {0}
  PROVE  /\ Entry(itemRule, q) \in 1 .. 40 /\ Entry(itemDot, q) \in 1 .. 9
         /\ Stos(q) \in 0 .. 46
         /\ Right(Entry(itemRule, q), Entry(itemDot, q)) = Stos(q)
BY DEF States, Entry, itemRule, itemDot, Right, rightSides, rightOffset, Stos, yystos

LEMMA OpensStarts ==
  ASSUME NEW a, NEW b, <<a, b>> \in Opens
  PROVE  a \in 35 .. 46 /\ Starts(a) \subseteq Starts(b)
BY DEF Opens, Starts

LEMMA SharesRule ==
  ASSUME NEW a, NEW b, NEW n, <<a, b, n>> \in Shares
  PROVE  /\ Starts(Left(a)) \subseteq Starts(Left(b))
         /\ \A j \in 1 .. n : Right(a, j) = Right(b, j)
BY DEF Shares, Starts, Left, Entry, yyr1, Right, rightSides, rightOffset

LEMMA ShiftFollows ==
  ASSUME NEW p \in States, Entry(yypact, p) # yypact_ninf, NEW x \in 0 .. 33, NEW i \in 0 .. yylast,
         i - Entry(yypact, p) = x, Entry(yycheck, i) - x = 0,
         NEW q \in States, Entry(yytable, i) - q = 0
  PROVE  q # 0 /\ Stos(q) = x
BY SMTT(60) DEF States, Entry, yypact, yycheck, yytable, yylast, yypact_ninf, Stos, yystos

LEMMA ShiftFollows2 ==
  ASSUME NEW p \in States, Entry(yypact, p) # yypact_ninf, NEW x \in 0 .. 33, NEW i \in 0 .. yylast,
         i - Entry(yypact, p) = x, Entry(yycheck, i) - x = 0,
         NEW q \in States, Entry(yytable, i) - q = 0
  PROVE  Follows(p, q)
BY SMTT(60) DEF States, Entry, yypact, yycheck, yytable, yylast, yypact_ninf, Stos, yystos,
   Follows, itemRule, itemDot, Starts, Left, yyr1, Right, rightSides, rightOffset, Opens

LEMMA GoToFollows ==
  ASSUME NEW symbol \in 35 .. 46, NEW p \in Starts(symbol),
         NEW q \in States, GoTo(p, symbol) - q = 0
  PROVE  q # 0 /\ Stos(q) = symbol
BY SMTT(60)
   DEF States, Entry, GoTo, yypgoto, yydefgoto, yytable, yycheck, yylast, yyntokens, Stos, yystos,
       Starts

LEMMA GoToFollows2 ==
  ASSUME NEW symbol \in 35 .. 46, NEW p \in Starts(symbol),
         NEW q \in States, GoTo(p, symbol) - q = 0
  PROVE  Follows(p, q)
BY SMTT(60)
   DEF States, Entry, GoTo, yypgoto, yydefgoto, yytable, yycheck, yylast, yyntokens, Stos, yystos,
   Follows, itemRule, itemDot, Starts, Left, yyr1, Right, rightSides, rightOffset, Opens

LEMMA Completed ==
  \A q \in States :
    q # yyfinal /\ Entry(yydefact, q) # 0 => Completes(q, Entry(yydefact, q))
BY SMTT(60)
   DEF States, Entry, yydefact, yyfinal, Completes, yyr2, itemRule, itemDot, Starts, Left, yyr1,
       Right,
   rightSides, rightOffset, Opens, Shares, Stos, yystos

\* The right sides are those of the grammar.
Named(rule, j) == Entry(yytname, Right(rule, j))

LEMMA LengthOfRule == \A r \in 1 .. 40 : Entry(yyr2, r) \in 0 .. 9 \ {8}
BY DEF Entry, yyr2

LEMMA SidesOf0 ==
  \A r \in 1 .. 40 : Entry(yyr2, r) = 0 =>
    Rule(r, Entry(yytname, Left(r)),
         <<>>) \in Grammar
BY SMTT(60)
  DEF Grammar, Rule, Infix, rightSides, rightOffset, Entry, yyr1, yyr2, yytname, Left, Right, Named

LEMMA SidesOf1 ==
  \A r \in 1 .. 40 : Entry(yyr2, r) = 1 =>
    Rule(r, Entry(yytname, Left(r)),
         <<Named(r, 1)>>) \in Grammar
BY SMTT(60)
  DEF Grammar, Rule, Infix, rightSides, rightOffset, Entry, yyr1, yyr2, yytname, Left, Right, Named

LEMMA SidesOf2 ==
  \A r \in 1 .. 40 : Entry(yyr2, r) = 2 =>
    Rule(r, Entry(yytname, Left(r)),
         <<Named(r, 1), Named(r, 2)>>) \in Grammar
BY SMTT(60)
  DEF Grammar, Rule, Infix, rightSides, rightOffset, Entry, yyr1, yyr2, yytname, Left, Right, Named

LEMMA SidesOf3 ==
  \A r \in 1 .. 40 : Entry(yyr2, r) = 3 =>
    Rule(r, Entry(yytname, Left(r)),
         <<Named(r, 1), Named(r, 2), Named(r, 3)>>) \in Grammar
BY SMTT(60)
  DEF Grammar, Rule, Infix, rightSides, rightOffset, Entry, yyr1, yyr2, yytname, Left, Right, Named

LEMMA SidesOf4 ==
  \A r \in 1 .. 40 : Entry(yyr2, r) = 4 =>
    Rule(r, Entry(yytname, Left(r)),
         <<Named(r, 1), Named(r, 2), Named(r, 3), Named(r, 4)>>) \in Grammar
BY SMTT(60)
  DEF Grammar, Rule, Infix, rightSides, rightOffset, Entry, yyr1, yyr2, yytname, Left, Right, Named

LEMMA SidesOf5 ==
  \A r \in 1 .. 40 : Entry(yyr2, r) = 5 =>
    Rule(r, Entry(yytname, Left(r)),
         <<Named(r, 1), Named(r, 2), Named(r, 3), Named(r, 4), Named(r, 5)>>) \in Grammar
BY SMTT(60)
  DEF Grammar, Rule, Infix, rightSides, rightOffset, Entry, yyr1, yyr2, yytname, Left, Right, Named

LEMMA SidesOf6 ==
  \A r \in 1 .. 40 : Entry(yyr2, r) = 6 =>
    Rule(r, Entry(yytname, Left(r)),
         <<Named(r, 1), Named(r, 2), Named(r, 3), Named(r, 4), Named(r, 5), Named(r, 6)>>)
           \in Grammar
BY SMTT(60)
  DEF Grammar, Rule, Infix, rightSides, rightOffset, Entry, yyr1, yyr2, yytname, Left, Right, Named

LEMMA SidesOf7 ==
  \A r \in 1 .. 40 : Entry(yyr2, r) = 7 =>
    Rule(r, Entry(yytname, Left(r)),
         <<Named(r, 1), Named(r, 2), Named(r, 3), Named(r, 4), Named(r, 5), Named(r, 6),
           Named(r, 7)>>) \in Grammar
BY SMTT(60)
  DEF Grammar, Rule, Infix, rightSides, rightOffset, Entry, yyr1, yyr2, yytname, Left, Right, Named

LEMMA SidesOf9 ==
  \A r \in 1 .. 40 : Entry(yyr2, r) = 9 =>
    Rule(r, Entry(yytname, Left(r)),
         <<Named(r, 1), Named(r, 2), Named(r, 3), Named(r, 4), Named(r, 5), Named(r, 6),
           Named(r, 7), Named(r, 8), Named(r, 9)>>) \in Grammar
BY SMTT(60)
  DEF Grammar, Rule, Infix, rightSides, rightOffset, Entry, yyr1, yyr2, yytname, Left, Right, Named

LEMMA Sides ==
  ASSUME NEW rule \in 1 .. 40
  PROVE  Rule(rule, Entry(yytname, Left(rule)), [j \in 1 .. Entry(yyr2, rule) |-> Named(rule, j)])
           \in Grammar
<1> DEFINE n == Entry(yyr2, rule)
           x(j) == Named(rule, j)
           right == [j \in 1 .. n |-> x(j)]
<1>0. n \in 0 .. 9 \ {8}
  BY LengthOfRule
<1>1. CASE n = 0
  <2>1. Rule(rule, Entry(yytname, Left(rule)), <<>>) \in Grammar
    BY <1>1, SidesOf0
  <2> HIDE DEF n, x
  <2>2. right = <<>>
    BY <1>1
  <2> QED BY <2>1, <2>2 DEF n, x
<1>2. CASE n = 1
  <2>1. Rule(rule, Entry(yytname, Left(rule)), <<x(1)>>) \in Grammar
    BY <1>2, SidesOf1
  <2> HIDE DEF n, x
  <2>2. right = <<x(1)>>
    BY <1>2
  <2> QED BY <2>1, <2>2 DEF n, x
<1>3. CASE n = 2
  <2>1. Rule(rule, Entry(yytname, Left(rule)), <<x(1), x(2)>>) \in Grammar
    BY <1>3, SidesOf2
  <2> HIDE DEF n, x
  <2>2. right = <<x(1), x(2)>>
    BY <1>3
  <2> QED BY <2>1, <2>2 DEF n, x
<1>4. CASE n = 3
  <2>1. Rule(rule, Entry(yytname, Left(rule)), <<x(1), x(2), x(3)>>) \in Grammar
    BY <1>4, SidesOf3
  <2> HIDE DEF n, x
  <2>2. right = <<x(1), x(2), x(3)>>
    BY <1>4
  <2> QED BY <2>1, <2>2 DEF n, x
<1>5. CASE n = 4
  <2>1. Rule(rule, Entry(yytname, Left(rule)), <<x(1), x(2), x(3), x(4)>>) \in Grammar
    BY <1>5, SidesOf4
  <2> HIDE DEF n, x
  <2>2. right = <<x(1), x(2), x(3), x(4)>>
    BY <1>5
  <2> QED BY <2>1, <2>2 DEF n, x
<1>6. CASE n = 5
  <2>1. Rule(rule, Entry(yytname, Left(rule)), <<x(1), x(2), x(3), x(4), x(5)>>) \in Grammar
    BY <1>6, SidesOf5
  <2> HIDE DEF n, x
  <2>2. right = <<x(1), x(2), x(3), x(4), x(5)>>
    BY <1>6
  <2> QED BY <2>1, <2>2 DEF n, x
<1>7. CASE n = 6
  <2>1. Rule(rule, Entry(yytname, Left(rule)), <<x(1), x(2), x(3), x(4), x(5), x(6)>>) \in Grammar
    BY <1>7, SidesOf6
  <2> HIDE DEF n, x
  <2>2. right = <<x(1), x(2), x(3), x(4), x(5), x(6)>>
    BY <1>7
  <2> QED BY <2>1, <2>2 DEF n, x
<1>8. CASE n = 7
  <2>1. Rule(rule, Entry(yytname, Left(rule)), <<x(1), x(2), x(3), x(4), x(5), x(6), x(7)>>)
           \in Grammar
    BY <1>8, SidesOf7
  <2> HIDE DEF n, x
  <2>2. right = <<x(1), x(2), x(3), x(4), x(5), x(6), x(7)>>
    BY <1>8
  <2> QED BY <2>1, <2>2 DEF n, x
<1>10. CASE n = 9
  <2>1. Rule(rule, Entry(yytname, Left(rule)), <<x(1), x(2), x(3), x(4), x(5), x(6), x(7), x(8),
                                                 x(9)>>) \in Grammar
    BY <1>10, SidesOf9
  <2> HIDE DEF n, x
  <2>2. right = <<x(1), x(2), x(3), x(4), x(5), x(6), x(7), x(8), x(9)>>
    BY <1>10
  <2> QED BY <2>1, <2>2 DEF n, x
<1> QED BY <1>0, <1>1, <1>2, <1>3, <1>4, <1>5, <1>6, <1>7, <1>8, <1>10

-----------------------------------------------------------------------------
(***************************************************************************)
(* The states on the stack.                                                *)
(***************************************************************************)

\* At the k-th state, as many symbols of a rule as dot have been read, and where
\* they began the rule could.
Holds(s, k, rule, dot) ==
  /\ dot \in 0 .. k - 1
  /\ s[k - dot] \in Starts(Left(rule))
  /\ \A j \in 1 .. dot : Stos(s[k - dot + j]) = Right(rule, j)

\* The inductive invariant of the stack: the item of each state holds, and what
\* a rule has made began where it could.
Linked(s) ==
  /\ Len(s) > 0
  /\ s[1] = 0
  /\ \A k \in 2 .. Len(s) :
       /\ s[k] # 0
       /\ Holds(s, k, Entry(itemRule, s[k]), Entry(itemDot, s[k]))
       /\ Stos(s[k]) >= yyntokens => s[k - 1] \in Starts(Stos(s[k]))

LEMMA HoldsBelow ==
  ASSUME NEW s \in Seq(States), NEW t \in Seq(States), NEW k \in Nat, \A i \in 1 .. k : t[i] = s[i],
         NEW rule, NEW dot, Holds(s, k, rule, dot)
  PROVE  Holds(t, k, rule, dot)
<1>1. dot \in 0 .. k - 1 /\ k - dot \in 1 .. k
  BY DEF Holds
<1>2. \A j \in 1 .. dot : k - dot + j \in 1 .. k
  BY <1>1
<1> QED BY <1>1, <1>2 DEF Holds

LEMMA LinkedBelow ==
  ASSUME NEW s \in Seq(States), NEW t \in Seq(States), Linked(s), Len(t) \in 1 .. Len(s),
         \A i \in 1 .. Len(t) : t[i] = s[i]
  PROVE  Linked(t)
<1>1. Len(t) > 0 /\ t[1] = 0
  BY DEF Linked
<1>2. ASSUME NEW k \in 2 .. Len(t)
      PROVE  /\ t[k] # 0
             /\ Holds(t, k, Entry(itemRule, t[k]), Entry(itemDot, t[k]))
             /\ Stos(t[k]) >= yyntokens => t[k - 1] \in Starts(Stos(t[k]))
  <2>1. k \in 2 .. Len(s) /\ k \in Nat /\ t[k] = s[k] /\ t[k - 1] = s[k - 1]
        /\ \A i \in 1 .. k : t[i] = s[i]
    OBVIOUS
  <2>2. Holds(s, k, Entry(itemRule, s[k]), Entry(itemDot, s[k]))
    BY <2>1 DEF Linked
  <2>3. Holds(t, k, Entry(itemRule, s[k]), Entry(itemDot, s[k]))
    BY <2>1, <2>2, HoldsBelow
  <2> QED BY <2>1, <2>3 DEF Linked
<1> QED BY <1>1, <1>2 DEF Linked

\* Of the symbols a rule begins with, the first has been read, and made where
\* the rule could begin.
LEMMA Opened ==
  ASSUME NEW s \in Seq(States), Linked(s), NEW rule, <<Stos(s[Len(s)]), Left(rule)>> \in Opens,
         Stos(s[Len(s)]) = Right(rule, 1)
  PROVE  Holds(s, Len(s), rule, 1)
<1> DEFINE n == Len(s)
<1>1. Stos(s[n]) \in 35 .. 46 /\ Starts(Stos(s[n])) \subseteq Starts(Left(rule))
  BY OpensStarts
<1>2. Stos(0) = 0
  BY DEF Stos, Entry, yystos
<1>3. n \in Nat /\ n > 1
  BY <1>1, <1>2 DEF Linked
<1>4. s[n - 1] \in Starts(Left(rule))
  BY <1>1, <1>3 DEF Linked, yyntokens
<1> HIDE DEF n
<1>5. 1 \in 0 .. n - 1 /\ \A j \in 1 .. 1 : j = 1 /\ n - 1 + j = n
  BY <1>3
<1>6. Holds(s, n, rule, 1)
  BY <1>4, <1>5 DEF Holds, n
<1> QED BY <1>6 DEF n

\* What a state follows goes on in its rule.
LEMMA Extended ==
  ASSUME NEW s \in Seq(States), Linked(s),
         NEW q \in States, q # 0, Follows(s[Len(s)], q),
         Stos(q) >= yyntokens => s[Len(s)] \in Starts(Stos(q))
  PROVE  Linked(Append(s, q))
<1> DEFINE n == Len(s)
           t == Append(s, q)
           p == s[n]
           rule == Entry(itemRule, q)
           dot == Entry(itemDot, q)
<1>1. /\ n \in Nat \ {0} /\ t \in Seq(States) /\ Len(t) = n + 1
      /\ \A i \in 1 .. n : t[i] = s[i]
      /\ t[n + 1] = q /\ p \in States
  BY DEF Linked
<1>2. dot \in 1 .. 9 /\ Right(rule, dot) = Stos(q)
  BY ItemOfState
<1>3. Holds(t, n + 1, rule, dot)
  <2>1. Follows(p, q)
    OBVIOUS
  <2>2. Linked(s)
    OBVIOUS
  <2>3. ASSUME Holds(s, n, rule, dot - 1)
        PROVE  Holds(t, n + 1, rule, dot)
    <3> HIDE DEF n, t, p, rule, dot
    <3>1. Holds(t, n, rule, dot - 1)
      BY <1>1, <2>3, HoldsBelow
    <3>2. dot - 1 \in 0 .. n - 1 /\ n - (dot - 1) = (n + 1) - dot
      BY <1>1, <1>2, <3>1 DEF Holds
    <3>3. dot \in 0 .. (n + 1) - 1 /\ t[(n + 1) - dot] \in Starts(Left(rule))
      BY <1>1, <1>2, <3>1, <3>2 DEF Holds
    <3>4. ASSUME NEW j \in 1 .. dot
          PROVE  Stos(t[(n + 1) - dot + j]) = Right(rule, j)
      <4>1. CASE j = dot
        <5>1. (n + 1) - dot + j = n + 1
          BY <1>1, <1>2, <4>1
        <5> QED BY <1>1, <1>2, <4>1, <5>1
      <4>2. CASE j \in 1 .. dot - 1
        BY <3>1, <3>2, <4>2 DEF Holds
      <4> QED BY <1>2, <4>1, <4>2
    <3> QED BY <3>3, <3>4 DEF Holds
  <2>4. CASE dot = 1 /\ p \in Starts(Left(rule))
    <3> HIDE DEF n, t, rule, dot
    <3>1. dot - 1 = 0 /\ n - 0 = n /\ 0 \in 0 .. n - 1 /\ 1 .. 0 = {}
      BY <1>1, <2>4
    <3>2. Holds(s, n, rule, dot - 1)
      BY <2>4, <3>1 DEF Holds
    <3> QED BY <2>3, <3>2
  <2>5. CASE dot > 1 /\ Entry(itemRule, p) = rule /\ Entry(itemDot, p) = dot - 1
    <3>1. Entry(itemDot, 0) = 0
      BY DEF Entry, itemDot
    <3> HIDE DEF n, t, rule, dot
    <3>2. n > 1
      BY <1>1, <1>2, <2>2, <2>5, <3>1 DEF Linked, n
    <3>3. n \in 2 .. Len(s) /\ p = s[n]
      BY <1>1, <3>2 DEF n
    <3>4. Holds(s, n, Entry(itemRule, p), Entry(itemDot, p))
      BY <2>2, <3>3 DEF Linked
    <3> QED BY <2>3, <2>5, <3>4
  <2>6. CASE dot = 2 /\ Stos(p) = Right(rule, 1) /\ <<Stos(p), Left(rule)>> \in Opens
    <3> HIDE DEF rule, dot
    <3>1. Holds(s, n, rule, 1) /\ dot - 1 = 1
      BY <2>2, <2>6, Opened
    <3> QED BY <2>3, <3>1
  <2> QED BY <2>1, <2>4, <2>5, <2>6 DEF Follows
<1>4. ASSUME NEW k \in 2 .. n + 1
      PROVE  /\ t[k] # 0
             /\ Holds(t, k, Entry(itemRule, t[k]), Entry(itemDot, t[k]))
             /\ Stos(t[k]) >= yyntokens => t[k - 1] \in Starts(Stos(t[k]))
  <2>1. CASE k = n + 1
    <3>1. t[k] = q /\ t[k - 1] = p
      BY <1>1, <2>1
    <3> QED BY <1>3, <2>1, <3>1
  <2>2. CASE k \in 2 .. n
    <3> HIDE DEF t
    <3>1. k \in Nat /\ t[k] = s[k] /\ t[k - 1] = s[k - 1] /\ \A i \in 1 .. k : t[i] = s[i]
      BY <1>1, <2>2
    <3>2. Holds(s, k, Entry(itemRule, s[k]), Entry(itemDot, s[k]))
      BY <2>2 DEF Linked
    <3>3. Holds(t, k, Entry(itemRule, s[k]), Entry(itemDot, s[k]))
      BY <1>1, <3>1, <3>2, HoldsBelow
    <3> QED BY <2>2, <3>1, <3>3 DEF Linked
  <2> QED BY <1>1, <2>1, <2>2
<1>5. Len(t) > 0 /\ t[1] = 0
  BY <1>1 DEF Linked
<1> HIDE DEF t, n
<1>6. Linked(t)
  BY <1>1, <1>4, <1>5 DEF Linked
<1> QED BY <1>6 DEF t

\* A rule that is complete on top of the stack lies on it from where it could
\* begin.
LEMMA Complete ==
  ASSUME NEW s \in Seq(States), Linked(s), NEW rule \in Rules, Completes(s[Len(s)], rule)
  PROVE  Holds(s, Len(s), rule, Entry(yyr2, rule))
<1> DEFINE n == Len(s)
           q == s[n]
           length == Entry(yyr2, rule)
           item == Entry(itemRule, q)
           dot == Entry(itemDot, q)
<1>1. n \in Nat \ {0} /\ q \in States /\ Linked(s) /\ Completes(q, rule)
  BY DEF Linked
<1>2. CASE length = 0 /\ q \in Starts(Left(rule))
  <2> HIDE DEF n, length
  <2>1. n - 0 = n /\ 0 \in 0 .. n - 1 /\ 1 .. 0 = {}
    BY <1>1
  <2> QED BY <1>2, <2>1 DEF Holds, length, n
<1>3. CASE length = 1 /\ Stos(q) = Right(rule, 1) /\ <<Stos(q), Left(rule)>> \in Opens
  <2> HIDE DEF length
  <2> QED BY <1>3, Opened DEF length
<1>4. ASSUME q # 0, length = dot
      PROVE  Holds(s, n, item, length)
  <2> HIDE DEF length, dot, item
  <2>1. n \in 2 .. Len(s)
    BY <1>1, <1>4 DEF Linked
  <2> QED BY <1>1, <1>4, <2>1 DEF Linked, item, dot
<1>5. item = rule \/ <<item, rule, dot>> \in Shares => q # 0
  <2>1. Entry(itemRule, 0) = 1
    BY DEF Entry, itemRule
  <2>2. 1 # rule /\ <<1, rule, dot>> \notin Shares
    BY DEF Rules, Shares
  <2> QED BY <2>1, <2>2
<1>6. CASE q # 0 /\ length = dot /\ item = rule
  <2> HIDE DEF length, dot, item, n, q
  <2> QED BY <1>4, <1>6 DEF length, n
<1>7. CASE q # 0 /\ length = dot /\ <<item, rule, dot>> \in Shares
  <2> HIDE DEF length, dot, item, n, q
  <2>1. Holds(s, n, item, length)
    BY <1>4, <1>7
  <2>2. /\ Starts(Left(item)) \subseteq Starts(Left(rule))
        /\ \A j \in 1 .. length : Right(item, j) = Right(rule, j)
    BY <1>7, SharesRule
  <2>3. Holds(s, n, rule, length)
    BY <2>1, <2>2 DEF Holds
  <2> QED BY <2>3 DEF length, n
<1> HIDE DEF length, item, dot, n, q
<1> QED BY <1>1, <1>2, <1>3, <1>5, <1>6, <1>7 DEF Completes, length, item, dot, n, q

-----------------------------------------------------------------------------
(***************************************************************************)
(* The steps.                                                              *)
(***************************************************************************)

IsStack(stack) == (\E S : stack \in Seq(S)) /\ Len(stack) > 0
StatesOf(stack) == [k \in 1 .. Len(stack) |-> stack[k].state]

LEMMA StatesPushed ==
  ASSUME NEW S, NEW stack \in Seq(S), NEW state, NEW value
  PROVE  LET new == Pushed(stack, state, value) IN
         IsStack(new) /\ StatesOf(new) = Append(StatesOf(stack), state)
<1> DEFINE x == [state |-> state, value |-> value]
           new == Append(stack, x)
<1>1. /\ new \in Seq(S \cup {x}) /\ Len(new) = Len(stack) + 1 /\ new[Len(new)] = x
      /\ \A k \in 1 .. Len(stack) : new[k] = stack[k]
  OBVIOUS
<1>2. x.state = state /\ Len(stack) \in Nat
  OBVIOUS
<1> HIDE DEF x
<1>3. IsStack(new)
  BY <1>1, <1>2 DEF IsStack
<1> HIDE DEF new
<1>4. StatesOf(new) = Append(StatesOf(stack), state)
  BY <1>1, <1>2 DEF StatesOf
<1> QED BY <1>3, <1>4 DEF Pushed, x, new

LEMMA StatesBelow ==
  ASSUME NEW S, NEW stack \in Seq(S), NEW n \in 1 .. Len(stack)
  PROVE  LET below == SubSeq(stack, 1, n) IN
         /\ below \in Seq(S) /\ Len(below) = n
         /\ StatesOf(below) = [k \in 1 .. n |-> StatesOf(stack)[k]]
<1>1. LET below == SubSeq(stack, 1, n) IN
      below \in Seq(S) /\ Len(below) = n /\ \A k \in 1 .. n : below[k] = stack[k]
  OBVIOUS
<1> QED BY <1>1 DEF StatesOf

\* Each state on the stack goes on in its item from where the item could begin.  A
\* state that switches the mode is on top only until the switch, which is made with
\* no token read.
Inv ==
  Parsing =>
    /\ IsStack(yystack)
    /\ StatesOf(yystack) \in Seq(States)
    /\ Linked(StatesOf(yystack))
    /\ yyla # <<>> => Top \notin SwitchingStates

LEMMA TopOfStates ==
  ASSUME IsStack(yystack), StatesOf(yystack) \in Seq(States)
  PROVE  LET s == StatesOf(yystack) IN
         Len(s) = Len(yystack) /\ Len(s) \in Nat \ {0} /\ Top = s[Len(s)] /\ Top \in States
<1> DEFINE s == StatesOf(yystack)
<1>1. Len(yystack) \in Nat \ {0}
  BY DEF IsStack
<1>2. Len(s) = Len(yystack) /\ \A k \in 1 .. Len(yystack) : s[k] = yystack[k].state
  BY <1>1 DEF StatesOf
<1> HIDE DEF s
<1>3. Top = s[Len(s)] /\ Len(s) \in Nat \ {0}
  BY <1>1, <1>2 DEF Top
<1>4. s \in Seq(States)
  BY DEF s
<1>5. Top \in States
  BY <1>3, <1>4
<1> QED BY <1>1, <1>2, <1>3, <1>5 DEF s

\* A token is shifted to a state that goes on with it.
LEMMA Translated ==
  ASSUME NEW type
  PROVE  LET x == yytranslate(type) IN
         x \in 0 .. 33 /\ (x = 2 \/ Entry(yytname, x) = type)
<1> DEFINE numbers == {i \in 1 .. yyntokens : yytname[i] = type}
           c == CHOOSE i \in numbers : TRUE
<1>1. CASE numbers = {}
  BY <1>1 DEF yytranslate
<1>2. CASE numbers # {}
  <2>1. c \in numbers
    BY <1>2
  <2>2. c \in 1 .. 34 /\ yytname[c] = type
    BY <2>1 DEF yyntokens
  <2>3. yytranslate(type) = c - 1
    BY <1>2 DEF yytranslate
  <2> HIDE DEF c
  <2> QED BY <2>2, <2>3 DEF Entry
<1> QED BY <1>1, <1>2

LEMMA NoUndefined == \A q \in States : Stos(q) # 2
BY DEF States, Stos, Entry, yystos

LEMMA Shifted ==
  ASSUME Top \in States, Deciding, Decided > 0
  PROVE  /\ Decided \in States /\ Decided # 0 /\ Follows(Top, Decided)
         /\ Stos(Decided) < yyntokens /\ Symbol(Decided) = yyla[1].type
<1> DEFINE token == IF yyla = <<>> THEN NoToken ELSE yyla[1]
           x == yytranslate(token.type)
           i == Entry(yypact, Top) + x
           default == -Entry(yydefact, Top)
           q == Entry(yytable, i)
<1>1. Top # yyfinal /\ Entry(yydefact, Top) \in Rules \cup {0}
  BY RuleOfState DEF Deciding
<1>2. ~(default > 0)
  <2> DEFINE d == Entry(yydefact, Top)
  <2>1. d \in Rules \cup {0}
    BY <1>1
  <2> HIDE DEF d
  <2> QED BY <2>1 DEF Rules, d
<1>3. x \in 0 .. 33 /\ (x = 2 \/ Entry(yytname, x) = token.type)
  BY Translated
<1> HIDE DEF token, x, default
<1>4. /\ ~Consistent(Top) /\ i \in 0 .. yylast /\ Entry(yycheck, i) = x
      /\ Decided = q
  <2>1. Decided = IF Consistent(Top) THEN default
                  ELSE IF i \notin 0 .. yylast THEN default
                  ELSE IF Entry(yycheck, i) # x THEN default
                  ELSE IF q = yytable_ninf THEN 0 ELSE q
    BY DEF Decided, Decision, token, x, default
  <2> HIDE DEF i, q
  <2>2. ~(0 > 0)
    OBVIOUS
  <2> QED BY <1>2, <2>1, <2>2
<1>5. token = yyla[1]
  BY <1>4 DEF Deciding, token
<1>6. q \in States
  BY <1>4, TableTyped
<1>7. Entry(yypact, Top) # yypact_ninf /\ Entry(yypact, Top) \in Int
  <2>1. \A p \in States : Entry(yypact, p) \in Int
    BY DEF States, Entry, yypact
  <2> QED BY <1>4, <2>1 DEF Consistent
<1>8. i - Entry(yypact, Top) = x /\ Entry(yycheck, i) - x = 0 /\ Entry(yytable, i) - q = 0
  <2> DEFINE e == Entry(yypact, Top)
             c == Entry(yycheck, i)
  <2>1. e \in Int /\ i = e + x /\ c = x /\ x \in Int /\ q \in Int
    BY <1>3, <1>4, <1>6, <1>7 DEF States
  <2> HIDE DEF e, c, i, q
  <2>2. i - e = x /\ c - x = 0 /\ q - q = 0
    BY <2>1
  <2> QED BY <2>2 DEF e, c, q
<1> HIDE DEF i, q
<1>9. q # 0 /\ Stos(q) = x
  BY <1>3, <1>4, <1>6, <1>7, <1>8, ShiftFollows
<1>10. Follows(Top, q)
  BY <1>3, <1>4, <1>6, <1>7, <1>8, ShiftFollows2
<1>11. x # 2 /\ x < yyntokens
  BY <1>3, <1>6, <1>9, NoUndefined DEF yyntokens
<1> QED BY <1>3, <1>4, <1>5, <1>6, <1>9, <1>10, <1>11 DEF Symbol, Stos

\* A rule's left side leads from where the rule began to a state that goes on with
\* it.
LEMMA WentTo ==
  ASSUME NEW symbol \in 35 .. 46, NEW p \in Starts(symbol)
  PROVE  LET q == GoTo(p, symbol) IN
         q \in States \ SwitchingStates /\ q # 0 /\ Stos(q) = symbol /\ Follows(p, q)
<1> DEFINE q == GoTo(p, symbol)
<1>1. q \in States \ SwitchingStates
  BY GoToTyped
<1> HIDE DEF q
<1>2. q - q = 0
  BY <1>1 DEF States
<1>3. GoTo(p, symbol) - q = 0
  BY <1>2 DEF q
<1>4. q # 0 /\ Stos(q) = symbol
  BY <1>1, <1>3, GoToFollows
<1>5. Follows(p, q)
  BY <1>1, <1>3, GoToFollows2
<1> QED BY <1>1, <1>4, <1>5 DEF q

\* What is reduced lies on the stack.
LEMMA Reduced ==
  ASSUME Inv, Deciding, Decided < 0
  PROVE  LET rule == -Decided
             s == StatesOf(yystack)
         IN  /\ rule \in Rules /\ rule = Entry(yydefact, Top)
             /\ Holds(s, Len(s), rule, Entry(yyr2, rule))
<1> DEFINE rule == -Decided
           s == StatesOf(yystack)
<1>1. /\ s \in Seq(States) /\ Linked(s) /\ IsStack(yystack) /\ Top # yyfinal
      /\ Top = s[Len(s)] /\ Top \in States
  BY TopOfStates DEF Inv, Deciding
<1>2. rule \in Rules /\ rule = Entry(yydefact, Top)
  BY <1>1, DecidedTyped
<1>3. Entry(yydefact, Top) # 0
  BY <1>2 DEF Rules
<1>4. Completes(Top, Entry(yydefact, Top))
  BY <1>1, <1>3, Completed
<1> HIDE DEF rule, s
<1>5. Completes(s[Len(s)], rule)
  BY <1>1, <1>2, <1>4
<1>6. Holds(s, Len(s), rule, Entry(yyr2, rule))
  BY <1>1, <1>2, <1>5, Complete
<1> QED BY <1>2, <1>6 DEF rule, s

LEMMA InitInv == Init => Inv
<1> SUFFICES ASSUME Init PROVE Inv
  OBVIOUS
<1> DEFINE bottom == Pushed(<<>>, 0, <<>>)
           s == StatesOf(bottom)
<1>1. IsStack(bottom) /\ s = Append(StatesOf(<<>>), 0)
  <2>1. <<>> \in Seq({})
    OBVIOUS
  <2> HIDE DEF bottom
  <2> QED BY <2>1, StatesPushed DEF bottom
<1>2. StatesOf(<<>>) = <<>>
  BY DEF StatesOf
<1>3. yystack = bottom /\ yyla = <<>>
  BY DEF Init, bottom
<1> HIDE DEF bottom, s
<1>4. s = Append(<<>>, 0)
  BY <1>1, <1>2
<1>5. s \in Seq(States) /\ Linked(s)
  <2>1. 0 \in States
    BY DEF States
  <2>2. s \in Seq(States) /\ Len(s) = 1 /\ s[1] = 0
    <3>1. <<>> \in Seq(States)
      OBVIOUS
    <3> QED BY <1>4, <2>1, <3>1
  <2>3. Len(s) > 0 /\ \A k \in 2 .. Len(s) : FALSE
    BY <2>2
  <2> QED BY <2>2, <2>3 DEF Linked
<1> QED BY <1>1, <1>3, <1>5 DEF Inv, s

\* What is pushed: a state that follows the top.
LEMMA PushInv ==
  ASSUME NEW S, NEW stack \in Seq(S), StatesOf(stack) \in Seq(States), Linked(StatesOf(stack)),
         NEW q \in States, q # 0, NEW value, Follows(StatesOf(stack)[Len(stack)], q),
         Stos(q) >= yyntokens => StatesOf(stack)[Len(stack)] \in Starts(Stos(q)),
         yystack' = Pushed(stack, q, value)
  PROVE  /\ IsStack(yystack') /\ StatesOf(yystack') \in Seq(States) /\ Linked(StatesOf(yystack'))
         /\ Top' = q
<1> DEFINE s == StatesOf(stack)
           new == Pushed(stack, q, value)
           t == StatesOf(new)
<1>1. IsStack(new) /\ t = Append(s, q)
  BY StatesPushed
<1>2. Len(s) = Len(stack)
  BY DEF StatesOf
<1>3. Linked(Append(s, q)) /\ Append(s, q) \in Seq(States)
  <2> HIDE DEF s
  <2> QED BY <1>2, Extended DEF s
<1>4. new[Len(new)].state = q
  BY DEF Pushed
<1> HIDE DEF s, new, t
<1>5. IsStack(yystack') /\ StatesOf(yystack') = t
  BY <1>1 DEF new, t
<1>6. Top' = q
  BY <1>4 DEF Top, new
<1> QED BY <1>1, <1>3, <1>5, <1>6

LEMMA StepInv == Inv /\ [Next]_vars => Inv' /\ (parseFlag' # parseFlag => yyla = <<>>)
<1> SUFFICES ASSUME Inv, [Next]_vars
             PROVE  Inv' /\ (parseFlag' # parseFlag => yyla = <<>>)
  OBVIOUS
<1>0. outcome' # "parsing" => Inv'
  BY DEF Inv, Parsing
<1>1. CASE ReadToken
  <2>1. UNCHANGED parseFlag /\ Parsing /\ ~Consistent(Top)
    BY <1>1 DEF ReadToken, Reading
  <2>2. outcome' = "parsing" => UNCHANGED yystack
    BY <1>1 DEF ReadToken, Continue, Token, Throws, Hangs
  <2>3. Top \notin SwitchingStates
    BY <2>1, SwitchingConsistent
  <2> QED BY <2>1, <2>2, <2>3 DEF Inv, Parsing, Top
<1>2. CASE Shift
  <2>1. /\ Deciding /\ Decided > 0 /\ yyla' = <<>> /\ UNCHANGED parseFlag
        /\ yystack' = Pushed(yystack, Decided, yyla[1].value)
    BY <1>2 DEF Shift
  <2>2. /\ IsStack(yystack) /\ StatesOf(yystack) \in Seq(States) /\ Linked(StatesOf(yystack))
    BY <2>1 DEF Inv, Deciding
  <2>3. Top \in States /\ Top = StatesOf(yystack)[Len(yystack)]
    BY <2>2, TopOfStates
  <2>4. /\ Decided \in States /\ Decided # 0 /\ Follows(Top, Decided)
        /\ Stos(Decided) < yyntokens /\ Stos(Decided) \in Int
    <3>1. \A q \in States : Stos(q) \in Int
      BY DEF States, Stos, Entry, yystos
    <3> QED BY <2>1, <2>3, <3>1, Shifted
  <2>5. ~(Stos(Decided) >= yyntokens)
    <3> DEFINE e == Stos(Decided)
    <3>1. e \in Int /\ e < yyntokens
      BY <2>4
    <3> HIDE DEF e
    <3> QED BY <3>1 DEF yyntokens, e
  <2>6. PICK S : yystack \in Seq(S)
    BY <2>2 DEF IsStack
  <2> DEFINE q == Decided
  <2> HIDE DEF q
  <2>7. IsStack(yystack') /\ StatesOf(yystack') \in Seq(States) /\ Linked(StatesOf(yystack'))
    BY <2>1, <2>2, <2>3, <2>4, <2>5, <2>6, PushInv DEF q
  <2> QED BY <2>1, <2>7 DEF Inv
<1>3. CASE Reduce
  <2> DEFINE rule == -Decided
             length == Entry(yyr2, rule)
             rest == SubSeq(yystack, 1, Len(yystack) - length)
             v == [i \in 1 .. length |-> yystack[Len(rest) + i].value]
             next == GoTo(rest[Len(rest)].state, Entry(yyr1, rule))
             s == StatesOf(yystack)
             n == Len(yystack) - length
             p == s[n]
  <2>1. /\ Deciding /\ Decided < 0 /\ UNCHANGED yyla
        /\ yystack' = Pushed(rest, next, Made(rule, v))
        /\ parseFlag' # parseFlag => rule \in SwitchingRules
    BY <1>3 DEF Reduce, SwitchingRules
  <2>2. /\ IsStack(yystack) /\ s \in Seq(States) /\ Linked(s)
    BY <2>1 DEF Inv, Deciding
  <2>3. /\ Top \in States /\ Top # yyfinal /\ Len(s) = Len(yystack) /\ Len(s) \in Nat \ {0}
    BY <2>1, <2>2, TopOfStates DEF Deciding
  <2>4. rule \in Rules /\ rule = Entry(yydefact, Top) /\ Holds(s, Len(s), rule, length)
    BY <2>1, Reduced
  <2>5. parseFlag' # parseFlag => Top \in SwitchingStates
    BY <2>1, <2>3, <2>4, RuleOfState
  <2>6. Left(rule) \in 35 .. 46
    BY <2>4, SymbolOfRule DEF Left
  <2>7. PICK S : yystack \in Seq(S)
    BY <2>2 DEF IsStack
  <2> HIDE DEF rule, length, v, s
  <2>8. length \in 0 .. Len(s) - 1 /\ n \in 1 .. Len(yystack) /\ p \in Starts(Left(rule))
    BY <2>3, <2>4 DEF Holds
  <2> HIDE DEF n
  <2>9. rest \in Seq(S) /\ Len(rest) = n /\ StatesOf(rest) = [k \in 1 .. n |-> s[k]]
    BY <2>7, <2>8, StatesBelow DEF n, s
  <2>10. StatesOf(rest) \in Seq(States) /\ Len(StatesOf(rest)) = n /\ n \in Nat \ {0}
         /\ \A k \in 1 .. n : StatesOf(rest)[k] = s[k]
    BY SMTT(30), <2>2, <2>3, <2>8, <2>9
  <2>11. Linked(StatesOf(rest))
    BY <2>2, <2>3, <2>8, <2>10, LinkedBelow
  <2>12. rest[Len(rest)].state = p /\ StatesOf(rest)[Len(rest)] = p
    <3> HIDE DEF rest
    <3>1. StatesOf(rest)[n] = rest[n].state
      BY <2>9, <2>10 DEF StatesOf
    <3> QED BY <2>9, <2>10, <3>1
  <2> HIDE DEF rest, p
  <2>13. /\ next \in States \ SwitchingStates /\ next # 0 /\ Stos(next) = Left(rule)
         /\ Follows(p, next)
    BY <2>6, <2>8, <2>12, WentTo DEF Left
  <2> HIDE DEF next
  <2>14. /\ IsStack(yystack') /\ StatesOf(yystack') \in Seq(States) /\ Linked(StatesOf(yystack'))
         /\ Top' = next
    BY <2>1, <2>8, <2>9, <2>10, <2>11, <2>12, <2>13, PushInv
  <2> QED BY <2>1, <2>5, <2>13, <2>14, SwitchingConsistent DEF Inv, Deciding
<1>4. CASE SyntaxError
  BY <1>0, <1>4 DEF SyntaxError
<1>5. CASE Accept
  BY <1>0, <1>5 DEF Accept
<1>6. CASE UNCHANGED vars
  BY <1>6 DEF vars, Inv, Parsing, Top
<1> QED BY <1>1, <1>2, <1>3, <1>4, <1>5, <1>6 DEF Next

-----------------------------------------------------------------------------
(***************************************************************************)
(* What the stack shows.                                                   *)
(***************************************************************************)

\* A rule that lies whole on the stack is spelled by the symbols of the states.
LEMMA Spells ==
  ASSUME IsStack(yystack), NEW rule \in 1 .. 40,
         Holds(StatesOf(yystack), Len(yystack), rule, Entry(yyr2, rule))
  PROVE  Rule(rule, Entry(yytname, Left(rule)), OnTop(Entry(yyr2, rule))) \in Grammar
<1> DEFINE s == StatesOf(yystack)
           N == Len(yystack)
           n == Entry(yyr2, rule)
<1>1. N \in Nat \ {0} /\ \A k \in 1 .. N : s[k] = yystack[k].state
  BY DEF IsStack, StatesOf
<1>2. n \in 0 .. N - 1 /\ \A j \in 1 .. n : Stos(s[N - n + j]) = Right(rule, j)
  BY DEF Holds
<1> HIDE DEF n, N
<1>3. \A j \in 1 .. n : N - n + j \in 1 .. N
  BY <1>1, <1>2
<1>4. ASSUME NEW j \in 1 .. n
      PROVE  Symbol(yystack[N - n + j].state) = Named(rule, j)
  <2>1. Stos(yystack[N - n + j].state) = Right(rule, j)
    BY <1>1, <1>2, <1>3
  <2> QED BY <2>1 DEF Symbol, Named, Stos
<1>5. OnTop(n) = [j \in 1 .. n |-> Named(rule, j)]
  BY <1>4 DEF OnTop, N
<1> QED BY <1>5, Sides DEF n

LEMMA InvFollows == Inv => FollowsGrammar
<1> SUFFICES ASSUME Inv PROVE FollowsGrammar
  OBVIOUS
<1> DEFINE s == StatesOf(yystack)
           N == Len(yystack)
<1>1. ASSUME Parsing
      PROVE  /\ IsStack(yystack) /\ s \in Seq(States) /\ Linked(s)
             /\ Len(s) = N /\ N \in Nat \ {0} /\ Top = s[N] /\ Top \in States
  BY <1>1, TopOfStates DEF Inv
<1>2. ASSUME Deciding, Decided < 0
      PROVE  LET rule == -Decided
                 length == Entry(yyr2, rule)
                 below == yystack[Len(yystack) - length].state
             IN  /\ length < Len(yystack)
                 /\ Rule(rule, Symbol(GoTo(below, Entry(yyr1, rule))), OnTop(length)) \in Grammar
  <2> DEFINE rule == -Decided
             length == Entry(yyr2, rule)
             below == yystack[N - length].state
             q == GoTo(below, Entry(yyr1, rule))
  <2>1. /\ IsStack(yystack) /\ s \in Seq(States) /\ Len(s) = N /\ N \in Nat \ {0}
    BY <1>1, <1>2 DEF Deciding
  <2>2. rule \in Rules /\ Holds(s, N, rule, length)
    BY <1>2, <2>1, Reduced
  <2> HIDE DEF rule
  <2>3. Rule(rule, Entry(yytname, Left(rule)), OnTop(length)) \in Grammar
    <3>1. rule \in 1 .. 40
      BY <2>2 DEF Rules
    <3> HIDE DEF length
    <3>2. Holds(StatesOf(yystack), Len(yystack), rule, Entry(yyr2, rule))
      BY <2>2 DEF length
    <3>3. Rule(rule, Entry(yytname, Left(rule)), OnTop(Entry(yyr2, rule))) \in Grammar
      BY <2>1, <3>1, <3>2, Spells
    <3> QED BY <3>3 DEF length
  <2>4. Left(rule) \in 35 .. 46
    BY <2>2, SymbolOfRule DEF Left
  <2>5. length \in 0 .. N - 1 /\ s[N - length] \in Starts(Left(rule))
    BY <2>2 DEF Holds
  <2> HIDE DEF length
  <2>6. N - length \in 1 .. N
    BY <2>1, <2>5
  <2>7. s[N - length] = below
    BY <2>6 DEF StatesOf
  <2>8. Stos(q) = Left(rule)
    BY <2>4, <2>5, <2>7, WentTo DEF Left
  <2>9. length < N
    BY <2>1, <2>5
  <2> QED BY <2>3, <2>8, <2>9 DEF Symbol, Stos, rule, length
<1>3. ASSUME Deciding, Decided > 0
      PROVE  Symbol(Decided) = yyla[1].type
  BY <1>1, <1>3, Shifted DEF Deciding
<1>4. ASSUME Parsing, Top = yyfinal
      PROVE  Rule(1, "$accept", OnTop(N - 1)) \in Grammar
  <2>1. /\ IsStack(yystack) /\ s \in Seq(States) /\ Linked(s) /\ Len(s) = N /\ N \in Nat \ {0}
        /\ s[N] = 2
    BY <1>1, <1>4 DEF yyfinal
  <2>2. /\ Entry(itemRule, 2) = 1 /\ Entry(itemDot, 2) = 2 /\ Starts(34) = {0} /\ Left(1) = 34
        /\ Entry(yyr2, 1) = 2 /\ Entry(yytname, 34) = "$accept"
    BY DEF Entry, itemRule, itemDot, Starts, Left, yyr1, yyr2, yytname
  <2> HIDE DEF s, N
  <2>3. N \in 2 .. N
    BY <2>1 DEF Linked
  <2>4. Holds(s, N, 1, 2)
    BY <2>1, <2>2, <2>3 DEF Linked
  <2>5. N - 2 \in 1 .. N /\ s[N - 2] = 0
    BY <2>1, <2>2, <2>4 DEF Holds
  <2>6. N = 3
    BY <2>1, <2>5 DEF Linked
  <2>7. Rule(1, Entry(yytname, Left(1)), OnTop(Entry(yyr2, 1))) \in Grammar
    BY <2>1, <2>2, <2>4, Spells DEF s, N
  <2> QED BY <2>2, <2>6, <2>7
<1> QED BY <1>2, <1>3, <1>4 DEF FollowsGrammar

-----------------------------------------------------------------------------
\* The lexer's mode never changes behind a token that has been read, whatever
\* the text.
THEOREM ModeChangesInTime == Spec => ModeChangesBetweenTokens
BY InitInv, StepInv, PTL DEF Spec, ModeChangesBetweenTokens

\* Whatever the text, the parser derives it by the grammar of compiler.yy: what it
\* reduces by a rule is the rule's right side, whole, and what it accepts is a
\* program.
THEOREM DerivesByGrammar == Spec => []FollowsGrammar
BY InitInv, StepInv, InvFollows, PTL DEF Spec

=============================================================================
