------------------------------ MODULE Automaton ------------------------------
(***************************************************************************)
(* How bison's parsers read their tables: lalr1.cc, of which both parsers  *)
(* are copies.  Each gives it tables of its own.                           *)
(***************************************************************************)
EXTENDS Integers

CONSTANTS
  Entry(_, _),     \* the element of a table at an index
  yypact_ninf, yytable_ninf, yylast, yyntokens,
  yypact, yydefact, yypgoto, yydefgoto, yytable, yycheck,
  yytranslate(_)   \* the symbol of a token

\* Mutant of GoTo: the entry is taken whosever it is.
GoToUnchecked(state, symbol) ==
  LET i == Entry(yypgoto, symbol - yyntokens) + state
  IN  IF i \in 0 .. yylast THEN Entry(yytable, i) ELSE Entry(yydefgoto, symbol - yyntokens)

\* yy_lr_goto_state_: where a state goes with a symbol that was reduced.
GoTo(state, symbol) ==
  LET i == Entry(yypgoto, symbol - yyntokens) + state
  IN  IF i \in 0 .. yylast /\ Entry(yycheck, i) = state THEN Entry(yytable, i)
      ELSE Entry(yydefgoto, symbol - yyntokens)

\* Mutant of Consistent: a token is read before every decision.
NeverConsistent(state) == FALSE

\* Whether a state does the same whatever comes next.
Consistent(state) == Entry(yypact, state) = yypact_ninf

\* Mutant of Decision: what a state does by default, it does first.
DefaultFirst(state, token) ==
  LET symbol == yytranslate(token.type)
      i == Entry(yypact, state) + symbol
      default == -Entry(yydefact, state)
  IN  IF Consistent(state) \/ default # 0 \/ i \notin 0 .. yylast THEN default
      ELSE IF Entry(yycheck, i) # symbol THEN default
      ELSE Entry(yytable, i)

\* Positive: the state to shift to; negative: the rule to reduce by; zero: an
\* error.
Decision(state, token) ==
  LET symbol == yytranslate(token.type)
      i == Entry(yypact, state) + symbol
      default == -Entry(yydefact, state)
  IN  IF Consistent(state) THEN default
      ELSE IF i \notin 0 .. yylast THEN default
      ELSE IF Entry(yycheck, i) # symbol THEN default
      ELSE IF Entry(yytable, i) = yytable_ninf THEN 0
      ELSE Entry(yytable, i)

=============================================================================
