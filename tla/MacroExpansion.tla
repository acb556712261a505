--------------------------- MODULE MacroExpansion ---------------------------
(***************************************************************************)
(* The lexer and the parser actions that decide what is read next: labels, *)
(* .include, .define, .macro and macro calls, over the input stream.       *)
(*                                                                         *)
(* One step lexes one token and does what the grammar does with it; bison  *)
(* takes default reductions, so an action that follows a token runs before *)
(* the next token is read, and a statement is reduced as soon as its end   *)
(* has been read, the labels before it too, innermost first.  The lexer    *)
(* itself replaces an identifier that is a parameter of the innermost call *)
(* or that .define has defined, by pushing its text.                       *)
(*                                                                         *)
(* A character stands for a token of its own (a keyword, a directive, a    *)
(* string literal), or is part of an identifier.  Two statements stand for *)
(* the rest: n, which has no operand, and j, whose operand is a label.     *)
(***************************************************************************)
EXTENDS InputStream

CONSTANTS
  Letters, Digits,   \* the characters of identifiers
  Strings,           \* a function: string literal -> the text it denotes
  Programs,          \* source files: [main : a text, files : file name -> text]
  Copies,          \* the texts of 0, 1, ...: bounds the copies of a label
  Garbage            \* what reading past the last entry of the stream yields

ASSUME CharacterAssumption ==
  /\ (Letters \cup Digits) \cap {"\n", " ", ":", "(", ")", ",", ".include", ".dbg",
                                 ".define", ".macro", ".end"} = {}
  /\ DOMAIN Strings \cap (Letters \cup Digits) = {}
  /\ {"n", "j"} \subseteq Letters

ASSUME TextAssumption ==
  /\ \A p \in Programs :
       /\ p.main \in Texts
       /\ \A name \in DOMAIN p.files : name \in Texts /\ p.files[name] \in Texts
  /\ \A string \in DOMAIN Strings : Strings[string] \in Texts
  /\ Copies \in Seq(Texts)
  /\ <<"main">> \in Texts /\ <<"\n">> \in Texts  \* said, as no prover knows the literals

IdentifierChars == Letters \cup Digits

VARIABLES
  program,         \* the source files
  stream,          \* in
  expect,          \* what the parser reads next, or how it ended
  current,         \* the statement being read
  labels,          \* labels whose statement is not yet reduced, with labelInMacro
  location,        \* $$ of the statement reduced last: statements before it, and one
  macroCallStack,  \* of [uid, parameters, arguments]
  macros,          \* .define: identifier -> text
  macroFunctions,  \* .macro: identifier -> [parameters, body]
  labelLocations,
  astray,          \* a history: whether a text was inserted at no position
  output           \* the statements assembled: <<"n", <<>>>>, <<"j", label>>

vars == <<program, stream, expect, current, labels, location, macroCallStack, macros,
          macroFunctions, labelLocations, astray, output>>

Nothing == [kind |-> "", name |-> <<>>, list |-> <<>>, argument |-> <<>>, empty |-> TRUE]

EmptyMap == [key \in {} |-> <<>>]

Ended == {"parsed", "failed", "aborted", "undefined"}

MainName == <<"main">>

Init ==
  /\ program \in Programs
  /\ stream = Include(NewStream, MainName, program.main, 0)
  /\ expect = "statement"
  /\ current = Nothing
  /\ labels = <<>>
  /\ location = 0
  /\ macroCallStack = <<>>
  /\ macros = EmptyMap
  /\ macroFunctions = EmptyMap
  /\ labelLocations = EmptyMap
  /\ astray = FALSE
  /\ output = <<>>

Put(map, key, value) ==
  [k \in DOMAIN map \cup {key} |-> IF k = key THEN value ELSE map[k]]

IsIdentifierDefined(name) ==
  name \in DOMAIN labelLocations \cup DOMAIN macros \cup DOMAIN macroFunctions

-----------------------------------------------------------------------------
(***************************************************************************)
(* The lexer.                                                              *)
(***************************************************************************)

\* YYSKIP: past a character, and on to the entry of the next one.
Skips(s, n) ==
  LET skipped[k \in Nat] == IF k = 0 THEN s ELSE Settled(Get(skipped[k - 1])) IN skipped[n]

\* n characters read, without a look at what follows.
Gets(s, n) ==
  LET got[k \in Nat] == IF k = 0 THEN s ELSE Get(got[k - 1]) IN got[n]

\* How many of the first characters of a text are in a set.
Run(text, chars) ==
  LET others == {i \in 1 .. Len(text) : text[i] \notin chars}
  IN  IF others = {} THEN Len(text) ELSE Min(others) - 1

\* Where the first c of a text is, or 0.
Find(text, c) == IF c \in Range(text) THEN Run(text, Range(text) \ {c}) + 1 ELSE 0

\* GET_STRING: the stream goes back to the token's start and reads it again.
StringFails(s, start) ==
  SeekFails(s, start) \/ ReadFails(Seek(s, start), Tell(s) - start)
StringRead(s, start) == ReadText(Seek(s, start), Tell(s) - start)
AfterString(s, start) == Read(Seek(s, start), Tell(s) - start)

\* GET_CHAR, of the character before the current position.
CharFails(s) == SeekFails(s, Tell(s) - 1) \/ SeekFails(s, Tell(s))
CharRead(s) == ReadText(Seek(s, Tell(s) - 1), 1)[1]
AfterChar(s) == Seek(Get(Seek(s, Tell(s) - 1)), Tell(s))

\* A token: its kind, an identifier or string's text, the stream after it.
\* The last token of the input is lost: the lexer has met the end behind it.
Lexed(s) ==
  LET t == Settled(s)
      begin == Skips(t, Run(Rest(t), {" "}))
      rest == Rest(begin)
      c == rest[1]
      word == SubSeq(rest, 1, Run(rest, IdentifierChars))
      start == TellInternal(begin)
      after == Skips(begin, IF c \in IdentifierChars THEN Len(word) ELSE 1)
      Token(kind, text, u) == [kind |-> kind, text |-> text, s |-> u]
  IN  IF rest = <<>> THEN Token("end of file", <<>>, begin)
      ELSE IF AtEnd(after) THEN Token("end of file", <<>>, after)
      ELSE IF word \in {<<"n">>, <<"j">>} THEN Token(word[1], word, after)
      ELSE IF c \in IdentifierChars THEN
        IF StringFails(after, start) THEN Token("exception", <<>>, after)
        ELSE Token("identifier", StringRead(after, start), AfterString(after, start))
      ELSE IF c \in DOMAIN Strings THEN Token("string", Strings[c], after)
      ELSE IF c \in {"\n", ".define", ".macro", ".include", ".dbg"} THEN Token(c, <<>>, after)
      ELSE IF c = ".end" \/ CharFails(after) THEN Token("exception", <<>>, after)
      ELSE Token(CharRead(after), <<>>, AfterChar(after))

\* eofCallback, for every source that ended on the way to s.  Popping an empty
\* vector is undefined.
Overrun(s) == Len(s.ended) > Len(macroCallStack)
Returned(s) == SubSeq(macroCallStack, 1, Len(macroCallStack) - Len(s.ended))

\* The stream is now s.
Reads(s) ==
  /\ ~Overrun(s)
  /\ stream' = [s EXCEPT !.ended = <<>>]
  /\ macroCallStack' = Returned(s)

\* The parser stops.
Stop(how) ==
  /\ expect' = how
  /\ UNCHANGED <<program, stream, current, labels, location, macroCallStack, macros,
                 macroFunctions, labelLocations, astray, output>>

\* Where an identifier is among the parameters of the innermost call, or 0.
Parameter(calls, name) ==
  IF calls = <<>> \/ name \notin Range(Last(calls).parameters) THEN 0
  ELSE Min({i \in DOMAIN Last(calls).parameters : Last(calls).parameters[i] = name})

\* An identifier is replaced, unless it is lexed in argumentList.
IsReplaced(token) ==
  /\ token.kind = "identifier"
  /\ \/ Parameter(Returned(token.s), token.text) # 0
     \/ token.text \in DOMAIN macros

Replace(token) ==
  LET calls == Returned(token.s)
      i == Parameter(calls, token.text)
      text == IF i = 0 THEN macros[token.text] ELSE Last(calls).arguments[i]
  IN  /\ IsReplaced(token)
      /\ i # 0 => i <= Len(Last(calls).arguments)
      /\ \E garbage \in Garbage : Reads(PushString(token.s, text, FALSE, garbage))
      /\ astray' = (astray \/ Strays(token.s))
      /\ UNCHANGED <<program, expect, current, labels, location, macros, macroFunctions,
                     labelLocations, output>>

\* The call has fewer arguments than the macro parameters.
ReplaceByNothing(token) ==
  /\ token.kind = "identifier"
  /\ LET calls == Returned(token.s) IN
       Parameter(calls, token.text) > 0 /\ Parameter(calls, token.text) > Len(Last(calls).arguments)
  /\ Stop("undefined")

-----------------------------------------------------------------------------
(***************************************************************************)
(* The parser.                                                             *)
(***************************************************************************)

LexedStates ==
  {"statement", "nested", "identifier", "operand", "end", "string", "define", "macro",
   "open", "parameters", "parameter", "more", "header"}

\* The tokens the grammar accepts in each state.
Accepted(state) ==
  CASE state \in {"statement", "nested"} ->
         {"identifier", "n", "j", ".define", ".macro", ".include", ".dbg", "\n", "end of file"}
    [] state = "identifier" -> {":", "("}
    [] state \in {"operand", "define", "macro", "parameter"} -> {"identifier"}
    [] state = "end" -> {"\n", "end of file"}
    [] state = "string" -> {"string"}
    [] state = "open" -> {"("}
    [] state = "parameters" -> {"identifier", ",", ")"}
    [] state = "more" -> {",", ")"}
    [] state = "header" -> {"\n"}

\* A token that is read and kept: what the parser is at next.
Accept(token, kinds, now, next, statement) ==
  /\ expect \in now
  /\ token.kind \in kinds
  /\ ~IsReplaced(token)
  /\ Reads(token.s)
  /\ expect' = next
  /\ current' = statement
  /\ UNCHANGED <<program, location, macros, macroFunctions, labelLocations, astray, output>>

BeginStatement(token) ==
  LET begins == {"statement", "nested"}
      Statement(kind) == [Nothing EXCEPT !.kind = kind, !.name = token.text]
  IN  /\ \/ Accept(token, {"identifier"}, begins, "identifier", Statement("call"))
         \/ Accept(token, {"n"}, begins, "end", Statement("n"))
         \/ Accept(token, {"j"}, begins, "operand", Statement("j"))
         \/ Accept(token, {".include"}, begins, "string", Statement("include"))
         \/ Accept(token, {".dbg"}, begins, "string", Statement("dbg"))
         \/ Accept(token, {".define"}, begins, "define", Statement("define"))
         \/ Accept(token, {".macro"}, begins, "macro", Statement("macro"))
         \/ Accept(token, {"\n"}, begins, "nested", Nothing)
      /\ UNCHANGED labels

ContinueStatement(token) ==
  LET named == [current EXCEPT !.name = token.text]
      added == [current EXCEPT !.list = Append(@, token.text)]
  IN  /\ \/ Accept(token, {"("}, {"identifier"}, "arguments", current)
         \/ Accept(token, {"identifier"}, {"operand"}, "end", named)
         \/ Accept(token, {"string"}, {"string"}, "end", named)
         \/ Accept(token, {"identifier"}, {"define"}, "line", named)
         \/ Accept(token, {"identifier"}, {"macro"}, "open", named)
         \/ Accept(token, {"("}, {"open"}, "parameters", current)
         \/ Accept(token, {"identifier"}, {"parameters", "parameter"}, "more", added)
         \/ Accept(token, {","}, {"parameters", "more"}, "parameter", current)
         \/ Accept(token, {")"}, {"parameters", "more"}, "header", current)
         \/ Accept(token, {"\n"}, {"header"}, "block", current)
      /\ UNCHANGED labels

\* Mutant of ReadLabel: the label is an ordinary one.
ReadLabelGlobal(token) ==
  /\ Accept(token, {":"}, {"identifier"}, "nested", Nothing)
  /\ labels' = Append(labels, [name |-> current.name, inMacro |-> FALSE])

\* IDENTIFIER ':': the label waits for its statement, with whether it was read
\* in a macro call.
ReadLabel(token) ==
  /\ Accept(token, {":"}, {"identifier"}, "nested", Nothing)
  /\ labels' = Append(labels, [name |-> current.name, inMacro |-> Returned(token.s) # <<>>])

\* Mutant of EndOfFile: the grammar's conflict resolved the other way.
EndOfFileAgain(token) ==
  /\ token.kind = "end of file"
  /\ Reads(token.s)
  /\ expect \in {"statement", "nested"}
  /\ expect' = "reducing"
  /\ location' = Len(output) + 1
  /\ UNCHANGED <<program, current, labels, macros, macroFunctions, labelLocations, astray, output>>

\* The end of the input: a statement where one is expected.
EndOfFile(token) ==
  /\ token.kind = "end of file"
  /\ Reads(token.s)
  /\ \/ expect = "statement" /\ expect' = "parsed" /\ UNCHANGED location
     \/ /\ expect = "nested"
        /\ expect' = "reducing"
        /\ location' = Len(output) + 1
  /\ UNCHANGED <<program, current, labels, macros, macroFunctions, labelLocations, astray, output>>

SyntaxError(token) ==
  /\ token.kind \notin Accepted(expect) \cup {"exception"}
  /\ ~IsReplaced(token)
  /\ ~Overrun(token.s)
  /\ \E how \in {"aborted", "failed"} : Stop(how)  \* error() reads on for its message

LexerFails(token) ==
  \/ token.kind = "exception" /\ ~Overrun(token.s) /\ Stop("failed")
  \/ Overrun(token.s) /\ Stop("undefined")

-----------------------------------------------------------------------------
(***************************************************************************)
(* The end of a statement has been read.                                   *)
(***************************************************************************)

Ends(token, kinds) ==
  /\ expect = "end"
  /\ token.kind \in Accepted("end")
  /\ current.kind \in kinds
  /\ current' = Nothing

EndInstruction(token) ==
  /\ Ends(token, {"n", "j"})
  /\ Reads(token.s)
  /\ output' = Append(output, <<current.kind, IF current.kind = "j" THEN current.name ELSE <<>> >>)
  /\ location' = Len(output) + 1
  /\ expect' = "reducing"
  /\ UNCHANGED <<program, labels, macros, macroFunctions, labelLocations, astray>>

EndDefinition(token) ==
  /\ Ends(token, {"define", "macro"})
  /\ Reads(token.s)
  /\ expect' = "nested"
  /\ UNCHANGED <<program, labels, location, macros, macroFunctions, labelLocations, astray, output>>

EndInclude(token) ==
  /\ Ends(token, {"include"})
  /\ current.name \in DOMAIN program.files \cup DOMAIN stream.files
  /\ LET text == IF current.name \in DOMAIN program.files THEN program.files[current.name] ELSE <<>>
     IN  \E garbage \in Garbage : Reads(Include(token.s, current.name, text, garbage))
  /\ astray' = (astray \/ Strays(token.s))
  /\ expect' = "nested"
  /\ UNCHANGED <<program, labels, location, macros, macroFunctions, labelLocations, output>>

\* .dbg reads its string as source.
EndDebug(token) ==
  /\ Ends(token, {"dbg"})
  /\ \E garbage \in Garbage : Reads(PushString(token.s, current.name, FALSE, garbage))
  /\ astray' = (astray \/ Strays(token.s))
  /\ expect' = "nested"
  /\ UNCHANGED <<program, labels, location, macros, macroFunctions, labelLocations, output>>

FileMissing(token) ==
  /\ Ends(token, {"include"})
  /\ current.name \notin DOMAIN program.files \cup DOMAIN stream.files
  /\ Reads(token.s)
  /\ expect' = "failed"
  /\ UNCHANGED <<program, labels, location, macros, macroFunctions, labelLocations, astray, output>>

\* A macro call.  operator[] makes an empty macro of a name it does not know.
EndCall(token) ==
  LET macro == IF current.name \in DOMAIN macroFunctions THEN macroFunctions[current.name]
               ELSE [parameters |-> <<>>, body |-> <<>>]
  IN  /\ Ends(token, {"call"})
      /\ \E garbage \in Garbage :
           LET s == PushString(token.s, macro.body, TRUE, garbage)
           IN  /\ ~Overrun(s)
               /\ stream' = [s EXCEPT !.ended = <<>>]
               /\ macroCallStack' = Append(Returned(s),
                    [uid |-> s.uid, parameters |-> macro.parameters, arguments |-> current.list])
      /\ macroFunctions' = Put(macroFunctions, current.name, macro)
      /\ astray' = (astray \/ Strays(token.s))
      /\ expect' = "nested"
      /\ UNCHANGED <<program, labels, location, macros, labelLocations, output>>

-----------------------------------------------------------------------------
(***************************************************************************)
(* Steps that read no token: raw text, and the labels before a statement.  *)
(***************************************************************************)

\* lineAsString, and defineMacro: the rest of the line, whose end is put back.
ReadLine ==
  LET s == Settled(stream)
      n == Find(Rest(s), "\n")
      after == Skips(s, n)
  IN  /\ expect = "line"
      /\ IF n = 0 \/ AtEnd(after) \/ IsIdentifierDefined(current.name) THEN Stop("failed")
         ELSE /\ \E garbage \in Garbage : Reads(PushString(after, <<"\n">>, FALSE, garbage))
              /\ macros' = Put(macros, current.name, SubSeq(Rest(s), 1, n - 1))
              /\ astray' = (astray \/ Strays(after))
              /\ expect' = "end"
              /\ UNCHANGED <<program, current, labels, location, macroFunctions,
                             labelLocations, output>>

\* blockAsString, and defineMacro: the text up to .end.  Without one the loop
\* never ends: no step is possible.
ReadBlock ==
  LET s == Settled(stream)
      n == Find(Rest(s), ".end")
  IN  /\ expect = "block"
      /\ n # 0
      /\ IF IsIdentifierDefined(current.name) THEN Stop("failed")
         ELSE /\ Reads(Gets(s, n))
              /\ macroFunctions' = Put(macroFunctions, current.name,
                   [parameters |-> current.list, body |-> SubSeq(Rest(s), 1, n - 1)])
              /\ expect' = "end"
              /\ UNCHANGED <<program, current, labels, location, macros, labelLocations, astray, output>>

\* One match of argumentList: current.list is arguments.  An identifier that
\* .define has defined leaves empty as it is; a string ends the list, with the
\* character behind it.
ReadArgument ==
  LET s == Settled(stream)
      rest == Rest(s)
      c == rest[1]
      word == SubSeq(rest, 1, Run(rest, IdentifierChars))
      size == IF c \in Letters THEN Len(word) ELSE IF c \in DOMAIN Strings THEN 2 ELSE 1
      after == Skips(s, size)
      start == TellInternal(s)
      calls == Returned(after)
      name == StringRead(after, start)
      i == Parameter(calls, name)
      With(text, empty) == [current EXCEPT !.argument = @ \o text, !.empty = empty]
      pushed == [current EXCEPT !.list = Append(@, current.argument), !.argument = <<>>]
      Becomes(now, next, t) ==
        /\ Reads(t)
        /\ current' = now
        /\ expect' = next
        /\ UNCHANGED <<program, labels, location, macros, macroFunctions, labelLocations, astray, output>>
      Continue(text, empty, t) == Becomes(With(text, empty), "arguments", t)
  IN  /\ expect = "arguments"
      /\ IF rest = <<>> \/ AtEnd(after) THEN Stop("failed")
         ELSE
         \/ c = ")" /\ Becomes(IF current.empty THEN current ELSE pushed, "end", after)
         \/ c = "," /\ Becomes(pushed, "arguments", after)
         \/ /\ c \in DOMAIN Strings
            /\ Becomes([pushed EXCEPT !.list = Append(current.list, current.argument \o <<c>>)],
                       "end", after)
         \/ c \notin Letters \cup DOMAIN Strings \cup {")", ","} /\ Continue(<<c>>, FALSE, after)
         \/ c \in Letters /\ StringFails(after, start) /\ Stop("failed")
         \/ /\ c \in Letters
            /\ ~StringFails(after, start)
            /\ LET t == AfterString(after, start) IN
               \/ i # 0 /\ i > Len(Last(calls).arguments) /\ Stop("undefined")
               \/ i # 0 /\ i <= Len(Last(calls).arguments) /\ Continue(Last(calls).arguments[i], FALSE, t)
               \/ i = 0 /\ name \in DOMAIN macros /\ Continue(macros[name], current.empty, t)
               \/ i = 0 /\ name \notin DOMAIN macros /\ Continue(name, FALSE, t)

\* "IDENTIFIER ':' statement": in a macro call the label gets a name of its own,
\* and its identifier becomes a parameter of the call.
DefineLabel ==
  LET label == Last(labels)
      frame == Last(macroCallStack)
      Free(name) == ~IsIdentifierDefined(name) /\ name \notin Range(frame.parameters)
      free == {x \in DOMAIN Copies : Free(label.name \o Copies[x])}
      copy == label.name \o Copies[Min(free)]
  IN  /\ expect = "reducing"
      /\ labels # <<>>
      /\ IF label.inMacro /\ macroCallStack = <<>> THEN Stop("undefined")
         ELSE IF ~label.inMacro /\ IsIdentifierDefined(label.name) THEN Stop("failed")
         ELSE /\ labels' = Front(labels)
              /\ IF label.inMacro
                 THEN /\ free # {}  \* the bound
                      /\ macroCallStack' = Append(Front(macroCallStack),
                           [frame EXCEPT !.parameters = Append(@, label.name),
                                         !.arguments = Append(@, copy)])
                      /\ labelLocations' = Put(labelLocations, copy, location)
                 ELSE /\ labelLocations' = Put(labelLocations, label.name, location)
                      /\ UNCHANGED macroCallStack
              /\ UNCHANGED <<program, stream, expect, current, location, macros,
                             macroFunctions, astray, output>>

StatementReduced ==
  /\ expect = "reducing"
  /\ labels = <<>>
  /\ expect' = "statement"
  /\ UNCHANGED <<program, stream, current, labels, location, macroCallStack, macros,
                 macroFunctions, labelLocations, astray, output>>

-----------------------------------------------------------------------------
ReadToken ==
  /\ expect \in LexedStates
  /\ \E token \in {Lexed(stream)} :
       \/ LexerFails(token)
       \/ ~Overrun(token.s) /\ \/ Replace(token)
                               \/ ReplaceByNothing(token)
                               \/ BeginStatement(token)
                               \/ ContinueStatement(token)
                               \/ ReadLabel(token)
                               \/ EndOfFile(token)
                               \/ SyntaxError(token)
                               \/ EndInstruction(token)
                               \/ EndDefinition(token)
                               \/ EndInclude(token)
                               \/ EndDebug(token)
                               \/ FileMissing(token)
                               \/ EndCall(token)

Terminated == expect \in Ended /\ UNCHANGED vars

Next ==
  \/ ReadToken
  \/ ReadLine
  \/ ReadBlock
  \/ ReadArgument
  \/ DefineLabel
  \/ StatementReduced
  \/ Terminated

Spec == Init /\ [][Next]_vars

\* The parser keeps reading: weak fairness of Next, with its enabling condition
\* written out (and no step but a Next step changes vars).  A .macro without
\* .end keeps blockAsString in its loop.
Running == expect \notin Ended /\ (expect = "block" => ".end" \in Range(Rest(Settled(stream))))
FairSpec == Spec /\ ([]<>~Running \/ []<><<TRUE>>_vars)

-----------------------------------------------------------------------------
\* What a token's text is read by: going back to the position told is going
\* back to the character, whatever has been inserted before and behind it, as
\* long as nothing was inserted where no position is counted from.
SeekInvertsTell ==
  ~astray /\ ~Eof(stream) =>
    LET s == Settled(stream) IN Seek(s, TellInternal(s)) = s

\* What is read after a step is what was left to read before it, without some
\* of its beginning, behind one text of the table or none: nothing is read
\* twice, nothing is skipped by an insertion, and no text is cut off.
Continues(after, before, texts) ==
  \E text \in texts \cup {<<>>} : \E n \in 0 .. Len(before) :
    after = text \o SubSeq(before, n + 1, Len(before))

ReadsOnOrInserts ==
  [][~astray' => Continues(Rest(stream'), Rest(stream), Range(stream'.files))]_vars

=============================================================================
