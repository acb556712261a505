----------------------------- MODULE SyntaxTree -----------------------------
(***************************************************************************)
(* kasm::ast: the nodes of klang's syntax tree, which the parser's actions *)
(* make and the compiler reads.  A node is a record of what its maker      *)
(* stores in the union; nodes are never changed once they are made.        *)
(***************************************************************************)
EXTENDS Sequences

makeEmpty == [astNodeType |-> "EMPTY"]
makeCompound(first, second) ==
  [astNodeType |-> "COMPOUND", first |-> first, second |-> second]
makeReturn(expression) == [astNodeType |-> "RETURN", condition |-> expression]
makeLiteral(value) == [astNodeType |-> "LITERAL", value |-> value]
makeFunctionDefinition(identifier, type, arguments, body) ==
  [astNodeType |-> "FUNCTION_DEFINITION", identifier |-> identifier, type |-> type,
   arguments |-> arguments, body |-> body, entry |-> identifier.identifier = "entry"]
makeFunctionCall(identifier, arguments) ==
  [astNodeType |-> "FUNCTION_CALL", identifier |-> identifier, arguments |-> arguments]
makeBinaryOperator(op, lhs, rhs) ==
  [astNodeType |-> "BINARY_OPERATOR", op |-> op, lhs |-> lhs, rhs |-> rhs]
makeUnaryOperator(op, rhs) ==
  [astNodeType |-> "UNARY_OPERATOR", op |-> op, rhs |-> rhs]
makeVariableDeclaration(identifier, type) ==
  [astNodeType |-> "VARIABLE_DECLARATION", identifier |-> identifier, type |-> type]
makeIdentifier(identifier) == [astNodeType |-> "IDENTIFIER", identifier |-> identifier]
makeType(type) == [astNodeType |-> "TYPE", type |-> type]
makeIfThenElse(condition, trueBody, falseBody) ==
  [astNodeType |-> "IF_THEN_ELSE", condition |-> condition, trueBody |-> trueBody,
   falseBody |-> falseBody]
makeIfThen(condition, trueBody) ==
  [astNodeType |-> "IF_THEN", condition |-> condition, trueBody |-> trueBody]
makeWhile(condition, body) ==
  [astNodeType |-> "WHILE", condition |-> condition, body |-> body]
makeDoWhile(condition, body) ==
  [astNodeType |-> "DO_WHILE", condition |-> condition, body |-> body]
makeFor(initialize, condition, increment, body) ==
  [astNodeType |-> "FOR", initialize |-> initialize, condition |-> condition,
   increment |-> increment, body |-> body]
makeStringLiteral(str) == [astNodeType |-> "STRING_LITERAL", str |-> str]
makeASM(source) == [astNodeType |-> "ASM", source |-> source]

=============================================================================
