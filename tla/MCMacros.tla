------------------------------ MODULE MCMacros ------------------------------
(***************************************************************************)
(* Source files for MacroExpansion.  A regular one is written as a list of *)
(* items, from which both its text and its meaning follow; the irregular   *)
(* ones are texts, for the parser's other ends.                            *)
(***************************************************************************)
EXTENDS MacroExpansion

MCLetters == {"n", "j", "f", "g", "p", "x", "y", "d", "l"}
MCDigits == {"0", "1", "2", "3", "4", "5"}
MCStrings == "S" :> <<"l">>
MCCopies == << <<"0">>, <<"1">>, <<"2">>, <<"3">>, <<"4">>, <<"5">> >>

-----------------------------------------------------------------------------
\* Items.
Item(kind, name, list) == [kind |-> kind, name |-> <<name>>, list |-> list]
Nop           == Item("n", "", <<>>)
Jump(to)      == Item("j", to, <<>>)
Label(name)   == Item(":", name, <<>>)
Call(f, list) == Item("call", f, list)
Included      == Item("include", "", <<>>)

\* Macros: one parameter each, p; .end in the first column, or behind a blank,
\* which is then the last character of the body.
Body(f, items) == [name |-> <<f>>, items |-> items, indent |-> <<>>]
Indented(macro) == [macro EXCEPT !.indent = <<" ">>]

CommaSeparated(list) ==
  FoldLeft(LAMBDA text, arg : IF text = <<>> THEN arg ELSE text \o <<",">> \o arg, <<>>, list)

ItemText(item) ==
  CASE item.kind = "n" -> <<" ", "n", "\n">>
    [] item.kind = "j" -> <<" ", "j", " ">> \o item.name \o <<"\n">>
    [] item.kind = ":" -> item.name \o <<":", "\n">>
    [] item.kind = "call" -> item.name \o <<"(">> \o CommaSeparated(item.list) \o <<")", "\n">>
    [] item.kind = "include" -> <<".include", " ", "S", "\n">>

TextOf(items) == FoldLeft(LAMBDA text, item : text \o ItemText(item), <<>>, items)

MacroText(macro) ==
  <<".macro", " ">> \o macro.name \o <<"(", "p", ")", "\n">> \o TextOf(macro.items) \o macro.indent \o <<".end", "\n">>

\* The last statement of the source is not a call: a statement without a line
\* of its own follows.
FileItems == <<Nop, Jump("y")>>
Regular(f, g, define, main) ==
  [main    |-> MacroText(f) \o MacroText(g) \o define \o TextOf(main) \o <<" ", "n", "\n">>,
   files   |-> <<"l">> :> TextOf(FileItems),
   regular |-> TRUE,
   bodies  |-> (f.name :> f.items) @@ (g.name :> g.items),
   items   |-> Append(main, Nop)]

Irregular(text) ==
  [main |-> text, files |-> [n \in {} |-> <<>>], regular |-> FALSE,
   bodies |-> <<>>, items |-> <<>>]

-----------------------------------------------------------------------------
(***************************************************************************)
(* The meaning of a regular source: the statements of every body in place  *)
(* of its call, with the parameter replaced.  An identifier is a pair of   *)
(* its name and the call it belongs to; a label of a body belongs to the   *)
(* call that is being expanded.                                            *)
(***************************************************************************)
Defined == <<"d">>
Parameters == <<"p">>

RECURSIVE Expanded(_, _, _, _)
Expanded(p, items, argument, path) ==
  LET locals == {items[i].name : i \in {k \in DOMAIN items : items[k].kind = ":"}}
      Meaning(name) == IF name = Parameters THEN argument
                       ELSE IF name \in locals THEN <<name, path>>
                       ELSE IF name = Defined THEN << <<"y">>, <<>> >>
                       ELSE <<name, <<>>>>
      Of(i) ==
        LET item == items[i] IN
        CASE item.kind = "call" ->
               Expanded(p, p.bodies[item.name], Meaning(item.list[1]), Append(path, i))
          [] item.kind = "include" -> Expanded(p, FileItems, argument, <<>>)
          [] OTHER -> <<[kind |-> item.kind, name |-> Meaning(item.name)]>>
  IN  FlattenSeq([i \in DOMAIN items |-> Of(i)])

Flat(p) == Expanded(p, p.items, <<>>, <<>>)

IsStatement(item) == item.kind # ":"
Statements(p) == SelectSeq(Flat(p), IsStatement)

\* The statement a name labels, or 0: the one behind the label.
Labelled(p, name) ==
  LET at == {i \in DOMAIN Flat(p) : Flat(p)[i].kind = ":" /\ Flat(p)[i].name = name}
  IN  IF at = {} THEN 0
      ELSE Len(SelectSeq(SubSeq(Flat(p), 1, Min(at)), IsStatement)) + 1

\* README: "IDENTIFIER([argument0[, argument1]...])  Insert the contents of the
\* macro body with parameter replacement into the input stream in place of this
\* directive", and .include likewise: the statements assembled are those of the
\* bodies, and every jump goes where its operand means.
ExpandsInPlace ==
  program.regular /\ expect \in Ended =>
    /\ expect = "parsed"
    /\ Len(output) = Len(Statements(program))
    /\ \A i \in DOMAIN output :
         LET statement == Statements(program)[i]
         IN  /\ output[i][1] = statement.kind
             /\ statement.kind = "j" =>
                  Labelled(program, statement.name) =
                    (IF output[i][2] \in DOMAIN labelLocations THEN labelLocations[output[i][2]]
                     ELSE 0)

\* The input stream is a nested text, and its callbacks end its calls.
Remaining ==
  LET Entry(i) ==
        [k \in DOMAIN Unread(stream, i) |-> <<Unread(stream, i)[k], 0>>]
        \o (IF stream.entries[i].uid = 0 THEN <<>>
            ELSE << <<"end of call", stream.entries[i].uid>> >>)
  IN  IF AtEnd(stream) THEN <<>>
      ELSE FlattenSeq([n \in 1 .. Len(stream.entries) + 1 - stream.it |-> Entry(stream.it + n - 1)])

Nested == INSTANCE NestedText WITH
  rest  <- Remaining,
  calls <- [i \in DOMAIN macroCallStack |-> macroCallStack[i].uid]

ImplementsNestedText == Nested!Spec

\* Parsing comes to an end.
Termination == <>(expect \in Ended)

-----------------------------------------------------------------------------
\* Bodies: labels are on statements that are neither a call nor the last one.
FBodies == { <<Jump("p")>>, <<Nop, Label("x"), Nop, Jump("x"), Jump("p")>>, <<>> }
GBodies == { <<Call("f", << <<"p">> >>)>>,
             <<Label("x"), Nop, Call("f", << <<"x">> >>), Jump("x"), Jump("p")>> }
MainItems == { Jump("y"), Label("y"), Call("f", << <<"y">> >>), Call("g", << <<"y">> >>), Included,
               Label("x"), Jump("x") }
Defines == { <<>>, <<".define", " ", "d", " ", "y", "\n">> }

LabelsDistinct(items) ==
  \A i, k \in DOMAIN items : items[i].kind = ":" /\ items[i] = items[k] => i = k

RegularPrograms ==
  { Regular(Body("f", f), Indented(Body("g", g)), <<>>, main) :
      f \in FBodies, g \in GBodies,
      main \in {m \in SeqOf(MainItems, 3) : LabelsDistinct(m)} }
  \cup
  { Regular(Body("f", f), Body("g", <<Nop, Call("f", << <<"p">> >>)>>), <<>>, <<Label("y"), Call("g", << <<"y">> >>), Nop>>) :
      f \in FBodies }
  \cup
  { Regular(Indented(Body("f", f)), Body("g", <<>>), <<".define", " ", "d", " ", "y", "\n">>, main) :
      f \in FBodies, main \in {<<Label("y"), Jump("d")>>, <<Jump("d"), Nop, Label("y")>>} }

IrregularPrograms == { Irregular(text) : text \in {
  <<"n">>, <<"n", " ", "n", "\n", "\n">>, <<"x", "\n", "\n">>, <<"(", "\n">>, <<".end", "\n">>,
  <<".include", " ", "S", "\n", "\n">>, <<".dbg", " ", "S", "\n">>,
  <<"x", ":", "n", "\n", "x", ":", "n", "\n", "\n">>,
  <<"x", ":", "\n">>,
  <<".dbg", " ", "S", "\n", ":", "\n", ".include", " ", "S", "\n", "(", ")", "\n", " ", "n", "\n", "\n">>,
  <<".define", " ", "x">>, <<".define", " ", "x", " ", "y", "\n", "x", ":", "\n", "\n", "\n">>,
  <<".macro", " ", "f", "(", "x", ",", "y", ")", "\n", "j", " ", "y", "\n", ".end", "\n",
    "f", "(", "x", ")", "\n", "\n">>,
  <<".macro", " ", "f", "(", ",", "y", ")", "\n", "g", "(", "y", ",", "0", ")", "\n", ".end", "\n",
    "f", "(", "S", ")", "\n", "\n">>,
  <<".macro", " ", "f", "(", "y", ")", "\n", ".include", " ", "y", "\n", ".end", "\n",
    "f", "(", "S", ")", "\n", "\n">>,
  <<".macro", " ", "f", "(", ")", "\n", ".end", "\n", ".macro", " ", "f", "(", ")", "\n", ".end", "\n">>,
  <<".define", " ", "d", " ", "y", "\n", "f", "(", "d", ")", "\n", "\n">>,
  <<".define", " ", "d", " ", "y", "\n", ".define", " ", "d", " ", "y", "\n">>,
  <<"f", "(", "y">>, <<"f", "(", "y", ")">> } }

\* A body whose last statement is labelled, called from another body.
LabelledLast ==
  { Regular(Body("f", <<Nop, Label("x"), Nop>>), Body("g", <<Call("f", << <<"y">> >>), Jump("x"), Nop>>),
            <<>>, <<Label("x"), Nop, Call("g", << <<"y">> >>)>>) }

MCPrograms == RegularPrograms \cup IrregularPrograms

=============================================================================
