------------------------------ MODULE Compiler ------------------------------
(***************************************************************************)
(* kasm::Compiler: from the syntax tree of a program in klang to lines of  *)
(* assembly.                                                               *)
(*                                                                         *)
(* A line is a record of its mnemonic, the registers, number and label it  *)
(* names, in the assembler's order; what a line looks like is left out.    *)
(* Of the operators below KlangParser makes ADD, MODULUS, ASSIGNMENT,      *)
(* EQUAL, LESS_THAN_OR_EQUAL, LOGICAL_AND, ADDRESS_OF and INDIRECTION.     *)
(***************************************************************************)
EXTENDS Integers, SyntaxTree, TLC
LOCAL INSTANCE SequencesExt

getSizeOfType(type) ==
  CASE type \in {"U32", "S32"} -> 4
    [] type \in {"U8", "S8"}   -> 1
    [] OTHER                   -> 0

-----------------------------------------------------------------------------
(***************************************************************************)
(* semanticAnalysis: the nodes it visits, and the ones it throws on.       *)
(***************************************************************************)

Visited(node) ==
  CASE node.astNodeType = "COMPOUND"            -> <<node.first, node.second>>
    [] node.astNodeType = "RETURN"              -> <<node.condition>>
    [] node.astNodeType = "FUNCTION_DEFINITION" -> <<node.body>>
    [] node.astNodeType = "FUNCTION_CALL"       -> <<node.arguments>>
    [] node.astNodeType = "BINARY_OPERATOR"     ->
         CASE node.op = "ADD"        -> <<node.lhs, node.rhs>>
           [] node.op = "ASSIGNMENT" -> <<node.rhs>>
           [] OTHER                  -> <<>>
    [] node.astNodeType = "UNARY_OPERATOR"      -> <<node.rhs>>
    [] node.astNodeType = "WHILE"               -> <<node.condition, node.body>>
    [] node.astNodeType = "IF_THEN"             -> <<node.condition, node.trueBody>>
    [] node.astNodeType = "IF_THEN_ELSE"        ->
         <<node.condition, node.trueBody, node.falseBody>>
    [] node.astNodeType = "FOR"                 ->
         <<node.initialize, node.condition, node.increment, node.body>>
    [] OTHER                                    -> <<>>

RECURSIVE Rejected(_)
Rejected(node) ==
  \/ node.astNodeType \in {"TYPE", "DO_WHILE"}
  \/ \E i \in DOMAIN Visited(node) : Rejected(Visited(node)[i])

-----------------------------------------------------------------------------
(***************************************************************************)
(* The lines codeGeneration writes.                                        *)
(***************************************************************************)

WriteLine(op, names, n, label) ==
  [astNodeType |-> "LINE", op |-> op, registers |-> names, n |-> n, label |-> label]

Plain(op)            == WriteLine(op, <<>>, 0, "")
Regs(op, r)          == WriteLine(op, r, 0, "")
Number(op, r, n)     == WriteLine(op, r, n, "")
Target(op, r, label) == WriteLine(op, r, 0, label)
LabelHere(label)     == WriteLine("label", <<>>, 0, label)
Data(label, op, n)   ==
  <<Plain(".data"), LabelHere(label), Number(op, <<>>, n), Plain(".text")>>

\* The label of a uid: a name a program may have given to something as well.
Generated(uid) == "_" \o ToString(uid)

\* The register of a number.
RegisterName ==
  <<"zero", "at", "v0", "v1", "a0", "a1", "a2", "a3", "t0", "t1", "t2", "t3", "t4", "t5",
    "t6", "t7", "s0", "s1", "s2", "s3", "s4", "s5", "s6", "s7", "t8", "t9", "k0", "k1",
    "gp", "sp", "fp", "ra">>
Argument(k) == RegisterName[4 + k]   \* the k-th from $a0 on, $t0 and so on after $a3

\* The stack of temporaries, which grows from $gp.
Push == <<Number("sw", <<"t0", "gp">>, 0), Number("addi", <<"gp", "gp">>, 4)>>

\* Mutant of Pop: the temporary stays on the stack.
PopNothing == <<Number("addi", <<"gp", "gp">>, 0), Number("lw", <<"t1", "gp">>, -4)>>

Pop == <<Number("addi", <<"gp", "gp">>, -4), Number("lw", <<"t1", "gp">>, 0)>>

\* What an operator does with its operands in $t1 and $t0.
BinaryOperation(op) ==
  CASE op = "ADD"         -> <<Regs("add", <<"t0", "t1", "t0">>)>>
    [] op = "MODULUS"     -> <<Regs("rem", <<"t0", "t1", "t0">>)>>
    [] op = "ASSIGNMENT"  -> <<Number("sw", <<"t0", "t1">>, 0)>>
    [] op = "LOGICAL_AND" -> <<Regs("sne", <<"t0", "t0", "zero">>),
                               Regs("sne", <<"t1", "t1", "zero">>),
                               Regs("and", <<"t0", "t1", "t0">>)>>
    [] op = "EQUAL"       -> <<Regs("seq", <<"t0", "t1", "t0">>)>>
    [] op = "NOT_EQUAL"   -> <<Regs("sne", <<"t0", "t1", "t0">>)>>
    [] op = "LESS_THAN"   -> <<Regs("slt", <<"t0", "t1", "t0">>)>>
    [] op = "LESS_THAN_OR_EQUAL" ->
         <<Regs("slt", <<"t2", "t1", "t0">>), Regs("seq", <<"t0", "t0", "t1">>),
           Regs("or", <<"t0", "t0", "t2">>)>>
    [] op = "GREATER_THAN" ->
         <<Regs("slt", <<"t2", "t0", "t1">>), Regs("seq", <<"t0", "t0", "t1">>),
           Regs("or", <<"t0", "t0", "t2">>), Number("xori", <<"t0", "t0">>, 1)>>
    [] op = "GREATER_THAN_OR_EQUAL" ->
         <<Regs("slt", <<"t0", "t0", "t1">>), Number("xori", <<"t0", "t0">>, 1)>>

UnaryOperation(op) ==
  CASE op = "NEGATE"      -> <<Regs("sub", <<"t0", "zero", "t0">>)>>
    [] op = "INDIRECTION" -> <<Number("lw", <<"t0", "t0">>, 0)>>
    [] op = "LOGICAL_NOT" -> <<Regs("seq", <<"t0", "t0", "zero">>)>>

-----------------------------------------------------------------------------
(***************************************************************************)
(* codeGeneration, as a function on what it has written and its static     *)
(* variables.  entry is semanticAnalysis's, which visits the statements in *)
(* the same order.                                                         *)
(***************************************************************************)

Nothing == [lines |-> <<>>, localVariables |-> <<>>, uid |-> 0, lval |-> FALSE, entry |-> FALSE]

RECURSIVE Gen(_, _)

\* Nodes and lines, in order.
All(parts, g) == FoldLeft(LAMBDA h, part : Gen(part, h), g, parts)

\* uids are taken before anything is generated.
Taking(count, parts, g) == All(parts, [g EXCEPT !.uid = @ + count])

\* The list that ',' makes of arguments; EMPTY stands for none.
RECURSIVE Arguments(_)
Arguments(node) ==
  CASE node.astNodeType = "EMPTY"    -> <<>>
    [] node.astNodeType = "COMPOUND" -> <<node.first>> \o Arguments(node.second)
    [] OTHER                         -> <<node>>

\* The parameters: the elements of the list up to one that is none.
RECURSIVE Parameters(_)
Parameters(node) ==
  CASE node.astNodeType = "COMPOUND"             -> 1 + Parameters(node.second)
    [] node.astNodeType = "VARIABLE_DECLARATION" -> 1
    [] OTHER                                     -> 0

\* Every parameter is entered under the name of the function; the i-th comes
\* from the register 4 * i after $a0.
GenFunctionDefinition(node, g) ==
  LET name == node.identifier.identifier
      count == Parameters(node.arguments)
      Save(i) == <<Number("addi", <<"sp", "sp">>, -4),
                   Number("sw", <<Argument(4 * i + 1), "fp">>, -4 * i)>>
      head == <<LabelHere(name),
                IF node.entry THEN Regs("copy", <<"fp", "sp">>) ELSE Plain("enter")>>
      locals == IF count = 0 THEN g.localVariables
                ELSE (name :> 4 * count) @@ g.localVariables
  IN  [All(head \o FlattenSeq([i \in 1 .. count |-> Save(i)]) \o <<node.body, Plain("ret")>>,
           [g EXCEPT !.entry = node.entry, !.localVariables = locals])
         EXCEPT !.localVariables = <<>>]

\* Mutant of GenFunctionCall: the arguments from the last to the first.
GenFunctionCallBackward(node, g) ==
  LET arguments == Reverse(Arguments(node.arguments))
      Pass(k) == <<arguments[k], Regs("copy", <<Argument(k), "t0">>)>>
  IN  All(FlattenSeq([k \in 1 .. Len(arguments) |-> Pass(k)])
          \o <<Target("call", <<>>, node.identifier.identifier)>>, g)

GenFunctionCall(node, g) ==
  LET arguments == Arguments(node.arguments)
      Pass(k) == <<arguments[k], Regs("copy", <<Argument(k), "t0">>)>>
  IN  All(FlattenSeq([k \in 1 .. Len(arguments) |-> Pass(k)])
          \o <<Target("call", <<>>, node.identifier.identifier)>>, g)

GenReturn(node, g) ==
  All(<<node.condition>>
      \o IF g.entry
         THEN <<Regs("copy", <<"a0", "t0">>), Number("li", <<"v0">>, 0), Plain("sys")>>
         ELSE <<Plain("ret")>>, g)

GenIfThenElse(node, g) ==
  LET end == Generated(g.uid)
      else == Generated(g.uid + 1)
  IN  Taking(2, <<node.condition, Target("beqz", <<"t0">>, else),
                  node.trueBody, Target("b", <<>>, end),
                  LabelHere(else), node.falseBody, LabelHere(end)>>, g)

GenIfThen(node, g) ==
  LET end == Generated(g.uid)
  IN  Taking(1, <<node.condition, Target("beqz", <<"t0">>, end),
                  node.trueBody, LabelHere(end)>>, g)

GenWhile(node, g) ==
  LET top == Generated(g.uid)
      bottom == Generated(g.uid + 1)
  IN  Taking(2, <<Target("b", <<>>, bottom), LabelHere(top), node.body, LabelHere(bottom),
                  node.condition, Target("bne", <<"t0", "zero">>, top)>>, g)

GenDoWhile(node, g) ==
  LET top == Generated(g.uid)
  IN  Taking(1, <<LabelHere(top), node.body, node.condition,
                  Target("bne", <<"t0", "zero">>, top)>>, g)

\* Mutant of GenFor: the increment is left out.
GenForever(node, g) ==
  LET top == Generated(g.uid)
      bottom == Generated(g.uid + 1)
      end == Generated(g.uid + 2)
  IN  Taking(3, <<node.initialize, node.condition, Target("beqz", <<"t0">>, end),
                  LabelHere(top), node.body, LabelHere(bottom),
                  node.condition, Target("bne", <<"t0", "zero">>, top), LabelHere(end)>>, g)

GenFor(node, g) ==
  LET top == Generated(g.uid)
      bottom == Generated(g.uid + 1)
      end == Generated(g.uid + 2)
  IN  Taking(3, <<node.initialize, node.condition, Target("beqz", <<"t0">>, end),
                  LabelHere(top), node.body, LabelHere(bottom), node.increment,
                  node.condition, Target("bne", <<"t0", "zero">>, top), LabelHere(end)>>, g)

\* lval says whether an identifier stands for its address; it is set around
\* the whole left side of an assignment.
GenBinaryOperator(node, g) ==
  CASE node.op = "LOGICAL_OR" -> g
    [] node.op = "ASSIGNMENT" ->
         LET left == Gen(node.lhs, [g EXCEPT !.lval = TRUE])
         IN  All(Push \o <<node.rhs>> \o Pop \o BinaryOperation(node.op),
                 [left EXCEPT !.lval = FALSE])
    [] OTHER -> All(<<node.lhs>> \o Push \o <<node.rhs>> \o Pop \o BinaryOperation(node.op), g)

\* '&' reads its operand as an identifier, whatever it is.
GenUnaryOperator(node, g) ==
  IF node.op # "ADDRESS_OF" THEN All(<<node.rhs>> \o UnaryOperation(node.op), g)
  ELSE IF node.rhs.astNodeType # "IDENTIFIER" THEN All(<<Plain("undefined")>>, g)
  ELSE LET name == node.rhs.identifier
       IN  All(<<IF name \in DOMAIN g.localVariables
                 THEN Number("addi", <<"t0", "fp">>, -g.localVariables[name])
                 ELSE Target("la", <<"t0">>, name)>>, g)

\* The address of a local is written as no instruction takes it: add $t0, -4, $fp.
GenIdentifier(node, g) ==
  LET name == node.identifier
      load == Target("la", <<"t0">>, name)
  IN  All(IF name \in DOMAIN g.localVariables
          THEN IF g.lval THEN <<Plain("add")>>
               ELSE <<Number("lw", <<"t0", "fp">>, -g.localVariables[name])>>
          ELSE IF g.lval THEN <<load>> ELSE <<load, Number("lw", <<"t0", "t0">>, 0)>>, g)

GenVariableDeclaration(node, g) ==
  LET name == node.identifier.identifier
  IN  All(Data(name, ".space", getSizeOfType(node.type.type))
          \o IF g.lval THEN <<Target("la", <<"t0">>, name)>> ELSE <<>>, g)

GenStringLiteral(node, g) ==
  Taking(1, Data(Generated(g.uid), ".asciiz", node.str)
            \o <<Target("la", <<"t0">>, Generated(g.uid))>>, g)

Gen(node, g) ==
  CASE node.astNodeType = "LINE"                 -> [g EXCEPT !.lines = Append(@, node)]
    [] node.astNodeType = "EMPTY"                -> g
    [] node.astNodeType = "COMPOUND"             -> All(<<node.first, node.second>>, g)
    [] node.astNodeType = "RETURN"               -> GenReturn(node, g)
    [] node.astNodeType = "LITERAL"              ->
         All(<<Number("li", <<"t0">>, node.value)>>, g)
    [] node.astNodeType = "FUNCTION_DEFINITION"  -> GenFunctionDefinition(node, g)
    [] node.astNodeType = "FUNCTION_CALL"        -> GenFunctionCall(node, g)
    [] node.astNodeType = "IF_THEN_ELSE"         -> GenIfThenElse(node, g)
    [] node.astNodeType = "IF_THEN"              -> GenIfThen(node, g)
    [] node.astNodeType = "WHILE"                -> GenWhile(node, g)
    [] node.astNodeType = "DO_WHILE"             -> GenDoWhile(node, g)
    [] node.astNodeType = "FOR"                  -> GenFor(node, g)
    [] node.astNodeType = "BINARY_OPERATOR"      -> GenBinaryOperator(node, g)
    [] node.astNodeType = "UNARY_OPERATOR"       -> GenUnaryOperator(node, g)
    [] node.astNodeType = "VARIABLE_DECLARATION" -> GenVariableDeclaration(node, g)
    [] node.astNodeType = "IDENTIFIER"           -> GenIdentifier(node, g)
    [] node.astNodeType = "STRING_LITERAL"       -> GenStringLiteral(node, g)
    [] node.astNodeType = "ASM"                  -> All(node.source, g)

\* compile(): the lines of a program, or <<>> and an exception.
compile(astRoot) == IF Rejected(astRoot) THEN <<>> ELSE Gen(astRoot, Nothing).lines

=============================================================================
