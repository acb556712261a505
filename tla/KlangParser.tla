----------------------------- MODULE KlangParser -----------------------------
(***************************************************************************)
(* cyy::parser::parse on a text in klang: the automaton of bison's tables, *)
(* the lexer it calls for a token when it needs one, and the actions of    *)
(* the grammar, which make the tree and switch the lexer's mode.           *)
(*                                                                         *)
(* One step is one turn of the parser's loop, or of the lexer's.  The      *)
(* locations and the messages are left out.                                *)
(***************************************************************************)
EXTENDS KlangLexer, KlangGrammar, SyntaxTree

CONSTANTS
  Texts,          \* the texts to parse
  Written(_)      \* what a text should make: an outcome and a tree

VARIABLES
  text,
  position,       \* of the next unit
  yystack,        \* states and the values of their symbols; the last is the top
  yyla,           \* the look-ahead: <<>> or a token
  parseFlag,
  astRoot,        \* <<>> until the first reduction
  outcome         \* "parsing", "accepted", "aborted" (a syntax error), "thrown" or "hung"

vars == <<text, position, yystack, yyla, parseFlag, astRoot, outcome>>

Top == yystack[Len(yystack)].state
Pushed(stack, state, value) == Append(stack, [state |-> state, value |-> value])

\* The symbol of a state, and those of the n states on top of the stack.
Symbol(state) == Entry(yytname, Entry(yystos, state))
OnTop(n) == [i \in 1 .. n |-> Symbol(yystack[Len(yystack) - n + i].state)]

Init ==
  /\ text \in Texts
  /\ position = 1
  /\ yystack = Pushed(<<>>, 0, <<>>)
  /\ yyla = <<>>
  /\ parseFlag = "NONE"
  /\ astRoot = <<>>
  /\ outcome = "parsing"

-----------------------------------------------------------------------------
(***************************************************************************)
(* What to do in a state.                                                  *)
(***************************************************************************)

INSTANCE Automaton

NoToken == [type |-> "END_OF_FILE", value |-> 0]
Decided == Decision(Top, IF yyla = <<>> THEN NoToken ELSE yyla[1])

Parsing  == outcome = "parsing"
Deciding == Parsing /\ Top # yyfinal /\ (Consistent(Top) \/ yyla # <<>>)
Reading  == Parsing /\ Top # yyfinal /\ ~Consistent(Top) /\ yyla = <<>>

-----------------------------------------------------------------------------
(***************************************************************************)
(* The grammar's actions: the value of a rule's left side, from the values *)
(* of its right side.                                                      *)
(***************************************************************************)

BinaryRules ==
  [r \in {19, 20, 21, 26, 27, 28} |->
     CASE r = 19 -> "ADD" [] r = 20 -> "MODULUS" [] r = 21 -> "ASSIGNMENT"
       [] r = 26 -> "EQUAL" [] r = 27 -> "LESS_THAN_OR_EQUAL" [] r = 28 -> "LOGICAL_AND"]

Made(rule, v) ==
  CASE rule \in {5, 17, 34} -> makeEmpty
    [] rule \in {6, 31, 32, 33, 35} -> v[1]
    [] rule \in {11, 23}    -> v[2]
    [] rule = 7             -> makeReturn(v[2])
    [] rule = 10            -> makeASM(v[4])
    [] rule = 12            -> makeIfThen(v[3], v[5])
    [] rule = 13            -> makeIfThenElse(v[3], v[5], v[7])
    [] rule = 14            -> makeWhile(v[3], v[5])
    [] rule = 15            -> makeFor(v[3], v[5], v[7], v[9])
    [] rule = 16            -> makeDoWhile(v[5], v[2])
    [] rule = 18            -> makeCompound(v[1], v[2])
    [] rule \in DOMAIN BinaryRules -> makeBinaryOperator(BinaryRules[rule], v[1], v[3])
    [] rule = 22            -> makeFunctionCall(v[1], v[3])
    [] rule = 24            -> makeCompound(v[1], v[3])
    [] rule = 25            -> makeVariableDeclaration(v[1], v[3])
    [] rule = 29            -> makeUnaryOperator("ADDRESS_OF", v[2])
    [] rule = 30            -> makeUnaryOperator("INDIRECTION", v[2])
    [] rule = 36            -> makeFunctionDefinition(v[1], v[6], v[3], v[8])
    [] rule = 37            -> makeType(v[1])
    [] rule = 38            -> makeIdentifier(v[1])
    [] rule = 39            -> makeLiteral(v[1])
    [] rule = 40            -> makeStringLiteral(v[1])
    [] OTHER                -> <<>>    \* the rules of program, and the two mid-rule actions

-----------------------------------------------------------------------------
(***************************************************************************)
(* The steps.                                                              *)
(***************************************************************************)

\* Mutant of Continue: the loop begins again where it was.
ContinueHere(turn) ==
  /\ turn.type = "continue"
  /\ UNCHANGED <<position, yystack, yyla, outcome>>

\* One turn of the lexer: it goes on to the next token, finds it, throws an
\* exception, which leaves parse and compile, or never leaves its loop.
Continue(turn) ==
  /\ turn.type = "continue"
  /\ position' = position + turn.length
  /\ UNCHANGED <<yystack, yyla, outcome>>

Token(turn) ==
  /\ turn.type \notin {"continue", "throw", "hang"}
  /\ yyla' = <<[type |-> turn.type, value |-> turn.value]>>
  /\ position' = position + turn.length
  /\ UNCHANGED <<yystack, outcome>>

Throws(turn) ==
  /\ turn.type = "throw"
  /\ outcome' = "thrown"
  /\ yystack' = <<yystack[1]>>
  /\ UNCHANGED <<position, yyla>>

Hangs(turn) ==
  /\ turn.type = "hang"
  /\ outcome' = "hung"
  /\ UNCHANGED <<position, yystack, yyla>>

ReadToken ==
  /\ Reading
  /\ \E turn \in {yylex(text, position, parseFlag)} :
       Continue(turn) \/ Token(turn) \/ Throws(turn) \/ Hangs(turn)
  /\ UNCHANGED <<text, parseFlag, astRoot>>

Shift ==
  /\ Deciding
  /\ Decided > 0
  /\ yystack' = Pushed(yystack, Decided, yyla[1].value)
  /\ yyla' = <<>>
  /\ UNCHANGED <<text, position, parseFlag, astRoot, outcome>>

Reduce ==
  /\ Deciding
  /\ Decided < 0
  /\ LET rule == -Decided
         length == Entry(yyr2, rule)
         rest == SubSeq(yystack, 1, Len(yystack) - length)
         v == [i \in 1 .. length |-> yystack[Len(rest) + i].value]
     IN  /\ yystack' = Pushed(rest, GoTo(rest[Len(rest)].state, Entry(yyr1, rule)), Made(rule, v))
         /\ astRoot' = CASE rule = 2        -> makeEmpty
                         [] rule \in {3, 4} -> makeCompound(astRoot, v[2])
                         [] OTHER           -> astRoot
         /\ parseFlag' = CASE rule = 8 -> "BLOCK_AS_STRING"
                           [] rule = 9 -> "NONE"
                           [] OTHER    -> parseFlag
  /\ UNCHANGED <<text, position, yyla, outcome>>

\* No rule has the error token: the stack is popped empty and parse returns 1.
SyntaxError ==
  /\ Deciding
  /\ Decided = 0
  /\ outcome' = "aborted"
  /\ yystack' = <<yystack[1]>>
  /\ yyla' = <<>>
  /\ UNCHANGED <<text, position, parseFlag, astRoot>>

Accept ==
  /\ Parsing
  /\ Top = yyfinal
  /\ outcome' = "accepted"
  /\ yystack' = <<yystack[1]>>
  /\ UNCHANGED <<text, position, yyla, parseFlag, astRoot>>

Next == ReadToken \/ Shift \/ Reduce \/ SyntaxError \/ Accept

\* The parser keeps going.
Spec == Init /\ [][Next]_vars /\ WF_vars(Next)

-----------------------------------------------------------------------------
(***************************************************************************)
(* Properties.                                                             *)
(***************************************************************************)

Ended == ~Parsing

\* The tables, which bison made once and the repository keeps, parse the
\* grammar of compiler.yy with the precedences it declares: every text ends as
\* its words say, a tree for a program, and for one with a syntax error the
\* statements before it, which compile() goes on with.
MakesWhatIsWritten ==
  Ended =>
    /\ outcome = Written(text).outcome
    /\ outcome \in {"accepted", "aborted"} => astRoot = Written(text).tree

\* Whatever the text, the parser derives it by the grammar of compiler.yy: what a
\* rule is reduced by is its right side, whole, on top of the stack, what takes its
\* place is its left side, a token is shifted as itself, and at the end there is
\* a program with the end of the text behind it, and nothing below.  So what is
\* accepted is a program, and an action finds the values of its rule's symbols.
FollowsGrammar ==
  /\ Deciding /\ Decided < 0 =>
       LET rule == -Decided
           length == Entry(yyr2, rule)
           below == yystack[Len(yystack) - length].state
       IN  /\ length < Len(yystack)
           /\ Rule(rule, Symbol(GoTo(below, Entry(yyr1, rule))), OnTop(length)) \in Grammar
  /\ Deciding /\ Decided > 0 => Symbol(Decided) = yyla[1].type
  /\ Parsing /\ Top = yyfinal => Rule(1, "$accept", OnTop(Len(yystack) - 1)) \in Grammar

\* The lexer's mode changes between tokens: an action that sets it runs before
\* the token it is for has been read, so that a block of assembly is never read
\* as words of klang, nor what follows it as assembly.
ModeChangesBetweenTokens ==
  [][parseFlag' # parseFlag => yyla = <<>>]_vars

\* The parser comes to an end of every text: it skips, takes or gives back
\* something in each turn.  (A block that nothing closes has an end of its own,
\* which is the lexer's loop and which only such a text may come to.)
Terminates == <>Ended

=============================================================================
