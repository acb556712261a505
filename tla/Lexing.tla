------------------------------- MODULE Lexing -------------------------------
(***************************************************************************)
(* What the lexers of klang and of the assembler have in common: re2c      *)
(* generated both, from rules written alike.                               *)
(*                                                                         *)
(* A text is a sequence of units: a word is all the letters, digits and    *)
(* underscores in a row that begin with a letter or an underscore, a       *)
(* numeral all the digits in a row, and every other character is a unit of *)
(* its own.  A word is a keyword or an identifier as a whole; the          *)
(* automaton that finds out is left out, what it skips before it decides   *)
(* is not: the lexers take the end of the text for the end of the file as  *)
(* soon as they skip the last unit, whatever they have read.               *)
(***************************************************************************)
EXTENDS Integers, Sequences

CONSTANTS
  Words,           \* the words of the texts; those that "%" and 0 may precede are whole
  Value,           \* of numerals
  BinaryValue,     \* of the words that make a binary numeral with a 0 before them
  HexValue,        \* of those that make a hexadecimal one
  Code,            \* of the units of one character
  EscapedCode,     \* of the characters of ESCAPE_SEQUENCES, alone
  INT_MAX,         \* the largest number std::stoi reads
  WORD_RANGE       \* the number of values of a std::uint32_t

ASSUME LexerAssumption ==
  /\ INT_MAX \in Nat /\ WORD_RANGE \in Nat /\ INT_MAX < WORD_RANGE
  /\ Value \in [DOMAIN Value -> Nat]
  /\ DOMAIN EscapedCode \subseteq DOMAIN Code

-----------------------------------------------------------------------------
(***************************************************************************)
(* What one turn of the lexer's loop finds: type is a token's, "continue", *)
(* "throw" or "hang", length the units it has skipped.                     *)
(***************************************************************************)

Found(type, value, length) == [type |-> type, value |-> value, length |-> length]
Thrown(length) == Found("throw", 0, length)

At(text, i) == IF i \in DOMAIN text THEN text[i] ELSE ""

NoMatch == Thrown(0)

Blank == {" ", "\t"}
Newline == {"\n"}

\* The units up to the first of a set, or to the end of the text.
UpTo(text, p, units) ==
  CHOOSE i \in p .. Len(text) + 1 :
    /\ At(text, i) \in units \cup {""}
    /\ \A j \in p .. i - 1 : text[j] \notin units

-----------------------------------------------------------------------------
\* std::stoi, and its int as a std::uint32_t.
Literal(number, length) ==
  IF number > INT_MAX THEN Thrown(length) ELSE Found("LITERAL", number % WORD_RANGE, length)

Decimal(text, p) ==
  LET v == At(text, p + 1)
  IN  CASE text[p] \in DOMAIN Value                -> Literal(Value[text[p]], 1)
        [] text[p] = "+" /\ v \in DOMAIN Value      -> Literal(Value[v], 2)
        [] text[p] = "-" /\ v \in DOMAIN Value      -> Literal(-Value[v], 2)
        [] OTHER                                    -> NoMatch

Based(text, p) ==
  LET v == At(text, p + 1)
  IN  CASE text[p] = "0" /\ v \in DOMAIN BinaryValue -> Literal(BinaryValue[v], 2)
        [] text[p] = "0" /\ v \in DOMAIN HexValue    -> Literal(HexValue[v], 2)
        [] OTHER                                    -> NoMatch

\* 'c', with any character but a quote or a backslash.
Character(text, p) ==
  LET c == At(text, p + 1)
  IN  IF text[p] # "'" \/ c = "\\" THEN NoMatch
      ELSE IF c \notin DOMAIN Code \/ c \in {"\"", "'"} THEN Thrown(1)
      ELSE IF At(text, p + 2) # "'" THEN Thrown(2)
      ELSE Found("LITERAL", Code[c], 3)

\* '\c', with any but a newline: at() throws of one ESCAPE_SEQUENCES lacks.
EscapedCharacter(text, p) ==
  LET c == At(text, p + 2)
  IN  IF text[p] # "'" \/ At(text, p + 1) # "\\" THEN NoMatch
      ELSE IF c \notin DOMAIN Code \/ c \in Newline THEN Thrown(2)
      ELSE IF At(text, p + 3) # "'" THEN Thrown(3)
      ELSE IF c \notin DOMAIN EscapedCode THEN Thrown(4)
      ELSE Found("LITERAL", EscapedCode[c], 4)

\* lexStringLiteral, from the unit after the quote: an escape sequence keeps
\* its backslash, and a string may not end the text.
StringLiteral(text, p) ==
  LET quoted[i \in p + 1 .. Len(text) + 1] ==
        CASE At(text, i) \in Newline \cup {""} -> Thrown(1)
          [] At(text, i) = "\"" ->
               IF i = Len(text) THEN Thrown(1)
               ELSE Found("STRING", SubSeq(text, p + 1, i - 1), i + 1 - p)
          [] At(text, i) = "\\" ->
               IF At(text, i + 1) \in DOMAIN EscapedCode THEN quoted[i + 2] ELSE Thrown(1)
          [] OTHER -> quoted[i + 1]
  IN  IF text[p] = "\"" THEN quoted[p + 1] ELSE NoMatch

-----------------------------------------------------------------------------
\* The first rule of the longest match; without one the character is invalid.
\* (The set of one element makes TLC match every rule once.)
LongestOf(matches) ==
  LET First(m) == CHOOSE i \in DOMAIN m :
                    /\ \A j \in DOMAIN m : m[j].length <= m[i].length
                    /\ \A j \in 1 .. i - 1 : m[j].length < m[i].length
  IN  CHOOSE match \in {m[First(m)] : m \in {matches}} : TRUE

\* YYSKIP: what is found is the end of the file, if there is nothing behind it.
SkippedTo(text, p, found) ==
  IF found.length > 0 /\ p + found.length > Len(text)
  THEN Found("END_OF_FILE", 0, found.length) ELSE found

=============================================================================
