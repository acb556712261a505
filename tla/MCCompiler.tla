----------------------------- MODULE MCCompiler -----------------------------
(***************************************************************************)
(* Programs in klang, what they mean, and the constants that compile and   *)
(* execute them on bytes of six bits: words of 24 bits, whose halves hold  *)
(* every distance in a program.                                            *)
(*                                                                         *)
(* The meaning is an interpreter of the syntax tree, over named variables  *)
(* and values: it shares nothing with the code generator.                  *)
(***************************************************************************)
EXTENDS CompiledProgram
LOCAL INSTANCE SequencesExt

-----------------------------------------------------------------------------
(***************************************************************************)
(* Source programs, built as the parser's actions build them.              *)
(***************************************************************************)

L(n) == makeLiteral(n)
V(name) == makeIdentifier(name)
Binary(op, a, b) == makeBinaryOperator(op, a, b)
Add(a, b) == Binary("ADD", a, b)
Mod(a, b) == Binary("MODULUS", a, b)
Eq(a, b)  == Binary("EQUAL", a, b)
Le(a, b)  == Binary("LESS_THAN_OR_EQUAL", a, b)
Both(a, b) == Binary("LOGICAL_AND", a, b)
Set(a, b) == Binary("ASSIGNMENT", a, b)
At(a)     == makeUnaryOperator("INDIRECTION", a)
AddressOf(name) == makeUnaryOperator("ADDRESS_OF", V(name))
Var(name, type) == makeVariableDeclaration(V(name), makeType(type))
Let(name, e) == Set(Var(name, "U32"), e)
Block(statements) == FoldLeft(makeCompound, makeEmpty, statements)
List(nodes) ==
  IF nodes = <<>> THEN makeEmpty ELSE FoldRight(makeCompound, Front(nodes), Last(nodes))
Do(name, arguments) == makeFunctionCall(V(name), List(arguments))
Fun(name, parameters, statements) ==
  makeFunctionDefinition(V(name), makeType("U32"),
    List([i \in DOMAIN parameters |-> Var(parameters[i], "U32")]), Block(statements))
Entry(statements) == Fun("entry", <<>>, statements)
Result(e) == makeReturn(e)

\* A function of three parameters that returns the k-th, counted from 0.
Picks(name, k) ==
  Fun(name, <<"a", "b", "c">>, <<makeASM(<<Regs("copy", <<"t0", Argument(k + 1)>>)>>)>>)

-----------------------------------------------------------------------------
(***************************************************************************)
(* What programs mean.  The state of the interpreter: variables, with the  *)
(* types they were declared with; the value returned, or Running; defined  *)
(* says that nothing has happened that klang gives no meaning to.          *)
(***************************************************************************)

InProgress == -1
AddressBase == WORD_RANGE          \* addresses are no words: the i-th variable's
NoValue == 2 * WORD_RANGE

Variables == <<"x", "y", "z", "i", "j", "n", "p", "s">>
AddressIn(name) == AddressBase + (CHOOSE i \in DOMAIN Variables : Variables[i] = name)
NameAt(address) == Variables[address - AddressBase]

Stored(st, name, value) ==
  LET width == IF st.types[name] = "U8" THEN BYTE_RANGE ELSE WORD_RANGE
  IN  IF value < WORD_RANGE THEN [st EXCEPT !.vars[name] = value % width]
      ELSE [st EXCEPT !.vars[name] = value]

Declared(st, name, type) ==
  [st EXCEPT !.vars = (name :> 0) @@ @, !.types = (name :> type) @@ @]

Operation(op, a, b) ==
  CASE op = "ADD"                -> Wrap(a + b)
    [] op = "MODULUS"            -> IF b = 0 THEN NoValue ELSE a % b
    [] op = "EQUAL"              -> Bool(a = b)
    [] op = "LESS_THAN_OR_EQUAL" -> Bool(a <= b)
    [] op = "LOGICAL_AND"        -> Bool(a # 0 /\ b # 0)

\* The definition of a function in a program.
RECURSIVE FunctionsOf(_)
FunctionsOf(tree) ==
  CASE tree.astNodeType = "COMPOUND" -> FunctionsOf(tree.second) @@ FunctionsOf(tree.first)
    [] tree.astNodeType = "FUNCTION_DEFINITION" -> (tree.identifier.identifier :> tree)
    [] OTHER -> <<>>

\* The value of an expression, and the state after it.
RECURSIVE Eval(_, _)
RECURSIVE Exec(_, _)

EvalAll(nodes, st) ==
  FoldLeft(LAMBDA acc, node : LET e == Eval(node, acc.st)
                              IN  [st |-> e.st, values |-> Append(acc.values, e.value)],
           [st |-> st, values |-> <<>>], nodes)

EvalCall(node, st) ==
  LET passed == EvalAll(Arguments(node.arguments), st)
      function == st.functions[node.identifier.identifier]
      body == function.body
      after == Exec(body, passed.st)
  IN  IF body.second.astNodeType = "ASM"
      THEN LET r == body.second.source[1].registers
           IN  [st |-> passed.st,
                value |-> IF Len(r) < 2 THEN NoValue
                          ELSE passed.values[CHOOSE k \in 1 .. 4 : Argument(k) = r[2]]]
      ELSE [st |-> [after EXCEPT !.returned = InProgress], value |-> after.returned]

EvalAssignment(node, st) ==
  LET lhs == node.lhs
      target == IF lhs.astNodeType = "UNARY_OPERATOR" THEN Eval(lhs.rhs, st)
                ELSE [st |-> IF lhs.astNodeType = "IDENTIFIER" THEN st
                             ELSE Declared(st, lhs.identifier.identifier, lhs.type.type),
                      value |-> AddressIn(IF lhs.astNodeType = "IDENTIFIER" THEN lhs.identifier
                                          ELSE lhs.identifier.identifier)]
      e == Eval(node.rhs, target.st)
  IN  [st |-> Stored(e.st, NameAt(target.value), e.value), value |-> e.value]

Eval(node, st) ==
  CASE node.astNodeType = "LITERAL"    -> [st |-> st, value |-> node.value]
    [] node.astNodeType = "IDENTIFIER" -> [st |-> st, value |-> st.vars[node.identifier]]
    [] node.astNodeType = "EMPTY"      -> [st |-> st, value |-> NoValue]
    [] node.astNodeType = "STRING_LITERAL" -> [st |-> st, value |-> NoValue]
    [] node.astNodeType = "VARIABLE_DECLARATION" ->
         [st |-> Declared(st, node.identifier.identifier, node.type.type), value |-> NoValue]
    [] node.astNodeType = "FUNCTION_CALL" -> EvalCall(node, st)
    [] node.astNodeType = "UNARY_OPERATOR" ->
         IF node.op = "ADDRESS_OF" THEN [st |-> st, value |-> AddressIn(node.rhs.identifier)]
         ELSE LET e == Eval(node.rhs, st) IN [st |-> e.st, value |-> e.st.vars[NameAt(e.value)]]
    [] node.astNodeType = "BINARY_OPERATOR" ->
         IF node.op = "ASSIGNMENT" THEN EvalAssignment(node, st)
         ELSE LET both == EvalAll(<<node.lhs, node.rhs>>, st)
                  value == Operation(node.op, both.values[1], both.values[2])
              IN  [st |-> [both.st EXCEPT !.defined = @ /\ value # NoValue], value |-> value]

RECURSIVE Loop(_, _, _, _)
Loop(condition, increment, body, st) ==
  LET tested == Eval(condition, st)
      once == Exec(body, tested.st)
  IN  IF tested.value = 0 THEN tested.st
      ELSE IF once.returned # InProgress \/ ~once.defined THEN once
      ELSE Loop(condition, increment, body, Eval(increment, once).st)

Exec(node, st) ==
  IF st.returned # InProgress \/ ~st.defined THEN st
  ELSE CASE node.astNodeType = "COMPOUND" -> Exec(node.second, Exec(node.first, st))
         [] node.astNodeType = "RETURN" ->
              LET e == Eval(node.condition, st) IN [e.st EXCEPT !.returned = e.value]
         [] node.astNodeType = "IF_THEN" ->
              LET e == Eval(node.condition, st)
              IN  IF e.value # 0 THEN Exec(node.trueBody, e.st) ELSE e.st
         [] node.astNodeType = "IF_THEN_ELSE" ->
              LET e == Eval(node.condition, st)
              IN  Exec(IF e.value # 0 THEN node.trueBody ELSE node.falseBody, e.st)
         [] node.astNodeType = "WHILE" -> Loop(node.condition, makeEmpty, node.body, st)
         [] node.astNodeType = "FOR" ->
              Loop(node.condition, node.increment, node.body, Eval(node.initialize, st).st)
         [] node.astNodeType = "FUNCTION_DEFINITION" ->
              IF node.entry THEN Exec(node.body, st) ELSE st
         [] OTHER -> Eval(node, st).st

Interpreted(tree) ==
  LET end == Exec(tree, [vars |-> <<>>, types |-> <<>>, functions |-> FunctionsOf(tree),
                         returned |-> InProgress, defined |-> TRUE])
  IN  IF end.defined THEN end.returned ELSE NoValue

-----------------------------------------------------------------------------
\* Expressions of x = 3 and y = 2: every operator on every two of four
\* operands, every two operators in both shapes.
Operators == {"ADD", "MODULUS", "EQUAL", "LESS_THAN_OR_EQUAL", "LOGICAL_AND"}
Operands == {V("x"), V("y"), L(0), L(70000)}

Expressions ==
  {Binary(op, a, b) : op \in Operators, a \in Operands, b \in Operands}
  \cup {Binary(op1, Binary(op2, V("x"), V("y")), L(1)) : op1 \in Operators, op2 \in Operators}
  \cup {Binary(op1, L(1), Binary(op2, V("x"), V("y"))) : op1 \in Operators, op2 \in Operators}

Computing(e) == Block(<<Entry(<<Let("x", L(3)), Let("y", L(2)), Result(e)>>)>>)

\* x = 2: conditions that hold and do not, nested.
Choosing(k) ==
  Block(<<Entry(<<Let("x", L(2)),
    makeIfThenElse(Eq(V("x"), L(k)), Set(V("x"), Add(V("x"), L(10))),
      makeIfThenElse(Le(V("x"), L(k)), Block(<<makeIfThen(L(k), Set(V("x"), L(20)))>>),
                     Set(V("x"), L(30)))),
    Result(V("x"))>>)>>)

Counting(n) ==
  Block(<<Entry(<<Let("s", L(0)), Let("i", L(1)),
    makeWhile(Le(V("i"), L(n)), Block(<<Set(V("s"), Add(V("s"), V("i"))),
                                        Set(V("i"), Add(V("i"), L(1)))>>)),
    Result(Add(V("s"), V("i")))>>)>>)

\* A loop in a loop, with a condition and a string in it, left by a return.
Loops(n) ==
  Block(<<Entry(<<Let("s", L(0)),
      makeFor(Let("i", L(0)), Le(V("i"), L(2)), Set(V("i"), Add(V("i"), L(1))),
        makeFor(Let("j", L(0)), Le(V("j"), V("i")), Set(V("j"), Add(V("j"), L(1))),
          Block(<<Do("write", <<makeStringLiteral(<<1, 2>>)>>),
                  makeIfThen(Eq(V("s"), L(n)), Result(Add(V("i"), L(40)))),
                  Set(V("s"), Add(V("s"), V("j")))>>))),
      Result(V("s"))>>),
    Fun("write", <<"s">>, <<makeASM(<<Number("li", <<"v0">>, 6), Plain("sys")>>)>>)>>)

\* f calls itself in the middle of a sum, below a global it changes.
Recursing(depth) ==
  Block(<<Let("n", L(0)),
    Entry(<<Result(Add(Add(V("n"), Do("f", <<>>)), V("n")))>>),
    Fun("f", <<>>, <<makeIfThen(Le(L(depth), V("n")), Result(L(5))),
                     Set(V("n"), Add(V("n"), L(1))),
                     Result(Add(V("n"), Add(Do("f", <<>>), V("n"))))>>)>>)

\* Arguments reach their registers, and a call may be the first of them.
Passing(k) ==
  Block(<<Entry(<<Let("x", L(4)),
      Result(Add(Do("pick", <<Do("pick", <<L(1), Add(V("x"), L(1)), L(3)>>), L(7), Mod(V("x"), L(3))>>),
                 Do("first", <<V("x"), L(9), L(9)>>)))>>),
    Picks("pick", k), Picks("first", 0)>>)

\* Through pointers, and an assignment of an assignment.
Pointing ==
  Block(<<Entry(<<Let("x", L(1)), Let("p", AddressOf("x")),
    Set(At(V("p")), Add(At(V("p")), L(6))),
    Let("y", Set(Var("z", "U32"), V("x"))),
    Result(Add(V("y"), V("z")))>>)>>)

\* Variables of one byte, the last ones of the data segment.
Narrow(value) ==
  Block(<<Entry(<<Let("x", L(5)), Set(Var("y", "U8"), L(value)), Result(V("x"))>>)>>)

RegularSources ==
  {Computing(e) : e \in Expressions} \cup {Choosing(k) : k \in 0 .. 3}
  \cup {Counting(n) : n \in 0 .. 3} \cup {Loops(n) : n \in 1 .. 5}
  \cup {Recursing(depth) : depth \in 0 .. 3} \cup {Passing(k) : k \in 0 .. 2}
  \cup {Pointing, Narrow(9)}

\* Nothing is claimed of these, but that they end: a do loop, which is refused;
\* a parameter, which is no variable; an entry function that does not return;
\* a call in the second argument, which overwrites the first; a for without a
\* condition, whose body never runs here.
IrregularSources ==
  { Block(<<Entry(<<makeDoWhile(L(0), makeEmpty), Result(L(1))>>)>>),
    Block(<<Entry(<<Result(Do("f", <<L(1)>>))>>), Fun("f", <<"x">>, <<Result(V("x"))>>)>>),
    Block(<<Entry(<<Let("x", L(1))>>)>>),
    Block(<<Entry(<<Result(Do("g", <<L(1), Do("g", <<L(2), L(3), L(4)>>), L(5)>>))>>),
            Picks("g", 0)>>),
    Block(<<Entry(<<makeFor(Let("i", L(0)), makeEmpty, makeEmpty, Result(L(1))), Result(L(2))>>)>>) }

MCSources == RegularSources \cup IrregularSources

MCMeaning(tree) == IF tree \in RegularSources THEN Interpreted(tree) ELSE NoValue

-----------------------------------------------------------------------------
MCRegisters ==
  {"zero", "v0", "a0", "a1", "a2", "a3", "t0", "t1", "t2", "t4", "s0", "gp", "sp", "fp", "ra"}

InstructionsOf(tree) == LET program == Assembled(compile(tree)) IN
  IF program.ok THEN Range(program.text) ELSE {}

\* The instructions of all programs, in some order: a word is a number in it.
Numbered(instruction, numbering) ==
  [decode |-> Append(numbering.decode, instruction),
   encode |-> (instruction :> Len(numbering.decode) + 1) @@ numbering.encode]

Numbering ==
  FoldSet(Numbered, [decode |-> <<>>, encode |-> <<>>],
          UNION {InstructionsOf(tree) : tree \in MCSources})

MCDecode == Numbering.decode
MCEncode(instruction) == Numbering.encode[instruction]

=============================================================================
