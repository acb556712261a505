------------------------------ MODULE MCParser ------------------------------
(***************************************************************************)
(* Texts in klang and what they say.                                       *)
(*                                                                         *)
(* Expressions are read by a reference parser: the grammar of compiler.yy  *)
(* in levels, one for each precedence it declares, which tries every way   *)
(* to split a sequence of tokens.  Programs are built together with their  *)
(* trees.                                                                  *)
(***************************************************************************)
EXTENDS KlangParser, TLC
LOCAL INSTANCE SequencesExt

-----------------------------------------------------------------------------
(***************************************************************************)
(* Expressions of the tokens x, 1, '@', parentheses and binary operators.  *)
(***************************************************************************)

\* The levels of the operators, the ones that bind least first, and those that
\* group from the left.
LevelOf == ("," :> 1) @@ ("=" :> 2) @@ ("&&" :> 3) @@ ("==" :> 4) @@ ("<=" :> 4) @@ ("+" :> 5)
           @@ ("%" :> 6)
FromLeft == {"+", "%"}
NameOf == ("=" :> "ASSIGNMENT") @@ ("&&" :> "LOGICAL_AND") @@ ("==" :> "EQUAL")
          @@ ("<=" :> "LESS_THAN_OR_EQUAL") @@ ("+" :> "ADD") @@ ("%" :> "MODULUS")
BinaryOperators == DOMAIN LevelOf

X == makeIdentifier("x")
One == makeLiteral(1)
Binary(op, a, b) == IF op = "," THEN makeCompound(a, b) ELSE makeBinaryOperator(NameOf[op], a, b)
Inside(s) == SubSeq(s, 2, Len(s) - 1)
Enclosed(s) == Len(s) > 1 /\ s[1] = "(" /\ s[Len(s)] = ")"

\* The trees of s as an expression of operators of a level and above.  An '@' has
\* no precedence and takes all that follows: it is part of an operand only if
\* nothing follows the operand (last).
RECURSIVE Readings(_, _, _)
Readings(s, level, last) ==
  LET Begins(token) == s # <<>> /\ s[1] = token
      Operand == CASE s = <<"x">> -> {X} [] s = <<"1">> -> {One} [] OTHER -> {}
      Parenthesised == IF Enclosed(s) THEN Readings(Inside(s), 1, TRUE) ELSE {}
      Called == IF Begins("x") /\ Enclosed(Tail(s))
                THEN {makeFunctionCall(X, arguments) :
                        arguments \in IF Len(s) = 3 THEN {makeEmpty}
                                      ELSE Readings(Inside(Tail(s)), 1, TRUE)}
                ELSE {}
      Prefixed == IF Begins("@") /\ last
                  THEN {makeUnaryOperator("INDIRECTION", e) : e \in Readings(Tail(s), 1, TRUE)}
                  ELSE {}
      SplitAt(i) ==
        LET n == LevelOf[s[i]]
            left == IF s[i] \in FromLeft THEN n ELSE n + 1
            right == IF s[i] \in FromLeft THEN n + 1 ELSE n
        IN  {Binary(s[i], a, b) : a \in Readings(SubSeq(s, 1, i - 1), left, FALSE),
                                  b \in Readings(SubSeq(s, i + 1, Len(s)), right, last)}
      Splits == {i \in 2 .. Len(s) - 1 : s[i] \in BinaryOperators /\ LevelOf[s[i]] >= level}
  IN  UNION ({Operand, Parenthesised, Called, Prefixed} \cup {SplitAt(i) : i \in Splits})

-----------------------------------------------------------------------------
(***************************************************************************)
(* Programs: tokens, each a sequence of units, and the tree they stand for.*)
(***************************************************************************)

Phrase(tokens, tree) == [tokens |-> tokens, tree |-> tree]
UnitsOf(word) ==
  CASE word = "==" -> <<"=", "=">> [] word = "<=" -> <<"<", "=">> [] word = "&&" -> <<"&", "&">>
    [] OTHER -> <<word>>
T(words) == [i \in DOMAIN words |-> UnitsOf(words[i])]
Expression(s) == Phrase(T(s), CHOOSE e \in Readings(s, 1, TRUE) : TRUE)
Nothing == Phrase(<<>>, makeEmpty)
Lexeme(units, tree) == Phrase(<<units>>, tree)
Quoted(units) == Lexeme(<<"\"">> \o units \o <<"\"">>, makeStringLiteral(units))
Declaring(name, word, type) ==
  Phrase(T(<<name, ":", word>>),
         makeVariableDeclaration(makeIdentifier(name), makeType(type)))

Statement(e) == Phrase(e.tokens \o T(<<";">>), e.tree)
Returning(e) == Phrase(T(<<"return">>) \o e.tokens \o T(<<";">>), makeReturn(e.tree))
TokensOf(phrases) == FlattenSeq([i \in DOMAIN phrases |-> phrases[i].tokens])
TreeOf(phrases) == FoldLeft(LAMBDA tree, p : makeCompound(tree, p.tree), makeEmpty, phrases)
Braces(statements) ==
  Phrase(T(<<"{">>) \o TokensOf(statements) \o T(<<"}">>), TreeOf(statements))
Tested(word, e) == T(<<word, "(">>) \o e.tokens \o T(<<")">>)
If(e, then) == Phrase(Tested("if", e) \o then.tokens, makeIfThen(e.tree, then.tree))
IfElse(e, then, else) ==
  Phrase(Tested("if", e) \o then.tokens \o T(<<"else">>) \o else.tokens,
         makeIfThenElse(e.tree, then.tree, else.tree))
While(e, body) == Phrase(Tested("while", e) \o body.tokens, makeWhile(e.tree, body.tree))
DoWhile(body, e) ==
  Phrase(T(<<"do">>) \o body.tokens \o Tested("while", e) \o T(<<";">>),
         makeDoWhile(e.tree, body.tree))
For(a, b, c, body) ==
  Phrase(T(<<"for", "(">>) \o a.tokens \o T(<<";">>) \o b.tokens \o T(<<";">>) \o c.tokens
           \o T(<<")">>) \o body.tokens,
         makeFor(a.tree, b.tree, c.tree, body.tree))
Asm(units) ==
  Phrase(<<<<"asm">>, <<"{">> \o units \o <<"}">>, <<";">>>>, makeASM(units))
Function(name, parameters, body) ==
  Phrase(T(<<name, "(">>) \o parameters.tokens \o T(<<")", ":", "u32">>) \o body.tokens,
         makeFunctionDefinition(makeIdentifier(name), makeType("U32"), parameters.tree,
                                body.tree))

E1 == Expression(<<"x", "==", "1">>)
S1 == Statement(Expression(<<"x", "=", "1">>))
S2 == Statement(Expression(<<"x", "(", "1", ")">>))

Literals ==
  { Lexeme(<<"7">>, makeLiteral(7)), Lexeme(<<"+", "7">>, makeLiteral(7)),
    Lexeme(<<"-", "7">>, makeLiteral(WORD_RANGE - 7)), Lexeme(<<"-", "28">>, makeLiteral(WORD_RANGE - 28)),
    Lexeme(<<"0">>, makeLiteral(0)), Lexeme(<<"0", "b101">>, makeLiteral(5)),
    Lexeme(<<"0", "x1F">>, makeLiteral(31)), Lexeme(<<"'", "n", "'">>, makeLiteral(110)),
    Lexeme(<<"'", "\\", "n", "'">>, makeLiteral(10)), Lexeme(<<"'", "\\", "'", "'">>, makeLiteral(39)),
    Lexeme(<<"'", " ", "'">>, makeLiteral(32)),
    Quoted(<<>>), Quoted(<<"x", " ", "}">>), Quoted(<<"\\", "\"", "/", "/">>) }

Types == {<<"u8", "U8">>, <<"28", "S8">>, <<"u32", "U32">>, <<"s32", "S32">>, <<"void", "VOID">>}

Statements ==
  {Returning(l) : l \in Literals} \cup {Statement(Declaring("x", t[1], t[2])) : t \in Types}
  \cup { Statement(Phrase(T(<<"&", "x">>), makeUnaryOperator("ADDRESS_OF", X))),
         Statement(Nothing), Braces(<<>>), Braces(<<S1, S2>>), DoWhile(S1, E1), While(E1, S2),
         If(E1, S1), If(E1, IfElse(E1, S1, S2)), IfElse(E1, S1, If(E1, S2)),
         IfElse(E1, Braces(<<If(E1, S1)>>), S2),
         For(Nothing, Nothing, Nothing, S1), For(E1, E1, E1, While(E1, Braces(<<S1>>))),
         Asm(<<>>), Asm(<<" ", "return", "\"", "/", "/", "\n", "x">>),
         Function("x", Nothing, Braces(<<>>)),
         Function("f", Declaring("x", "u8", "U8"), Braces(<<S1, Returning(E1)>>)) }

-----------------------------------------------------------------------------
(***************************************************************************)
(* Texts: tokens with something between them, and what they make.          *)
(***************************************************************************)

Spelled(tokens, between) == FlattenSeq([i \in DOMAIN tokens |-> tokens[i] \o between]) \o <<"\n">>

Sample(units, end, phrases) == [text |-> units, outcome |-> end, tree |-> TreeOf(phrases)]
Right(phrases, between) == Sample(Spelled(TokensOf(phrases), between), "accepted", phrases)
Wrong(phrases, tokens, end) ==
  Sample(Spelled(TokensOf(phrases) \o tokens, <<" ">>), end, phrases)

\* The sequences of up to three tokens, and all expressions of two operators.
SomeTokens == {"x", "1", "@", "(", ")", "+", "=", ","}
At2 == {<<>>, <<"@">>}
Sequences3 == UNION {[1 .. n -> SomeTokens] : n \in 0 .. 3}
Operations ==
  {p \o <<"x", f>> \o q \o <<"1", g>> \o r \o <<"x">> :
     f \in BinaryOperators, g \in BinaryOperators, p \in At2, q \in At2, r \in At2}
  \cup {<<"(", "x", f, "1", ")", g, "x">> : f \in BinaryOperators, g \in BinaryOperators}

ExpressionSample(s) ==
  IF s = <<>> \/ Readings(s, 1, TRUE) # {}
  THEN Right(<<Statement(IF s = <<>> THEN Nothing ELSE Expression(s))>>, <<" ">>)
  ELSE Wrong(<<>>, T(s \o <<";">>), "aborted")

\* A statement after a good one: no sign is an operator after a blank, "%include"
\* is in no rule, and a '.' is no symbol.
WrongStatements ==
  { T(<<")">>), T(<<"x", "1", ";">>), T(<<"return", ";">>), T(<<"else">>),
    T(<<"x">>) \o <<<<"+", "1">>>>, T(<<"x", "-", "x", ";">>), T(<<"x", ".", "x", ";">>),
    T(<<"if", "x", ";">>), T(<<"x", ":", "x", ";">>), T(<<"x", "(", ")", ":", "u8", ";">>),
    <<<<"%", "include">>, <<"\"", "x", "\"">>, <<";">>>>, <<<<"asm">>, <<"{", "x", "}">>, <<"x">>>>,
    T(<<"while", "(", "x", ")">>) }

ThrownTokens ==
  { <<"#">>, <<"'", "x">>, <<"'", "\\", "x", "'">>, <<"'", "'", "'">>, <<"\"", "x">>, <<"\"", "\\", "x", "\"">>,
    <<"999">>, <<"0", "b999">> }

Samples ==
  {ExpressionSample(s) : s \in Sequences3 \cup Operations}
  \cup {Right(<<S1, st, S2>>, between) :
          st \in Statements, between \in {<<" ">>, <<"/", "/", "x", ";", "\n">>}}
  \cup {Wrong(<<S1, S2>>, tokens, "aborted") : tokens \in WrongStatements}
  \cup {Wrong(<<S1>>, <<units>>, "thrown") : units \in ThrownTokens}
  \cup { Wrong(<<>>, <<<<"asm">>, <<"{", "x">>, <<";">>>>, "hung"),
         \* the text ends with the last token, which is lost, or with a string
         Sample(FlattenSeq(TokensOf(<<S1, S2>>)), "aborted", <<S1>>),
         Sample(FlattenSeq(TokensOf(<<S1, Quoted(<<>>)>>)), "thrown", <<S1>>) }

MCTexts == {sample.text : sample \in Samples}
MCWritten(t) == CHOOSE sample \in Samples : sample.text = t

-----------------------------------------------------------------------------
MCValue == ("0" :> 0) @@ ("1" :> 1) @@ ("7" :> 7) @@ ("28" :> 28) @@ ("999" :> 999)
MCBinaryValue == ("b101" :> 5) @@ ("b999" :> 999)
MCHexValue == "x1F" :> 31
MCEscapedCode == ("n" :> 10) @@ ("\\" :> 92) @@ ("'" :> 39) @@ ("\"" :> 34)
MCCode == ("n" :> 110) @@ MCEscapedCode @@ ("x" :> 120) @@ (" " :> 32) @@ (";" :> 59) @@ ("\n" :> 10)

=============================================================================
