----------------------------- MODULE KlangLexer -----------------------------
(***************************************************************************)
(* cyy::yylex, klang's lexer.                                              *)
(***************************************************************************)
EXTENDS Lexing

Directive == [include |-> "INCLUDE"]
Keyword ==
  [return |-> "RETURN", asm |-> "ASM", while |-> "WHILE", if |-> "IF", else |-> "ELSE",
   for |-> "FOR", do |-> "DO"]
Type ==
  [u8 |-> "U8", u32 |-> "U32", s32 |-> "S32", void |-> "VOID", type |-> "TYPE"]
TwoCharacters == {<<"=", "=">>, <<"<", "=">>, <<"&", "&">>}
SingleCharacters ==
  {":", ",", "+", "(", ")", "{", "}", "*", "-", ".", "/", "<", ">", "@", "&", "|", "~", "?",
   ";", "=", "%"}

-----------------------------------------------------------------------------
(***************************************************************************)
(* The rules.                                                              *)
(***************************************************************************)

Space(text, p) ==
  IF text[p] \in Blank \cup Newline THEN Found("continue", 0, 1) ELSE NoMatch

\* The rest of the line is skipped, not its end.
Comment(text, p) ==
  IF text[p] = "/" /\ At(text, p + 1) = "/"
  THEN Found("continue", 0, UpTo(text, p, Newline) - p) ELSE NoMatch

IncludeDirective(text, p) ==
  IF text[p] = "%" /\ At(text, p + 1) \in DOMAIN Directive
  THEN Found(Directive[text[p + 1]], 0, 2) ELSE NoMatch

\* A word is one token, however it begins.
Identifier(text, p) ==
  CASE text[p] \in DOMAIN Keyword -> Found(Keyword[text[p]], 0, 1)
    [] text[p] \in DOMAIN Type    -> Found("TYPE", Type[text[p]], 1)
    [] text[p] \in Words \ (DOMAIN Keyword \cup DOMAIN Type) -> Found("IDENTIFIER", text[p], 1)
    [] OTHER                      -> NoMatch

\* "28" is s8, but not behind a sign.
ShortType(text, p) == IF text[p] = "28" THEN Found("TYPE", "S8", 1) ELSE NoMatch

Operator(text, p) ==
  LET two == <<text[p], At(text, p + 1)>>
  IN  IF two \in TwoCharacters THEN Found(two[1] \o two[2], 0, 2)
      ELSE IF text[p] \in SingleCharacters THEN Found(text[p], 0, 1)
      ELSE NoMatch

-----------------------------------------------------------------------------
Longest(text, p) ==
  LongestOf(<<Space(text, p), Comment(text, p), IncludeDirective(text, p), ShortType(text, p),
              Identifier(text, p), Operator(text, p), Decimal(text, p), Based(text, p),
              Character(text, p), EscapedCharacter(text, p), StringLiteral(text, p)>>)

\* blockAsString: up to the first brace that closes, which is skipped.  Without
\* one the loop reads the end of the text for ever.
Block(text, p) ==
  LET i == UpTo(text, p, {"}"})
  IN  IF i > Len(text) THEN Found("hang", 0, 0)
      ELSE Found("STRING", SubSeq(text, p, i - 1), i + 1 - p)

\* One turn of yylex's loop.  Texts are not empty and do not end with a block.
yylex(text, p, parseFlag) ==
  IF parseFlag = "BLOCK_AS_STRING" THEN Block(text, p)
  ELSE CHOOSE turn \in {SkippedTo(text, p, found) : found \in {Longest(text, p)}} : TRUE

=============================================================================
