------------------------------- MODULE Parser -------------------------------
(***************************************************************************)
(* The recursive-descent parser of src/Parser.cpp as a state machine.      *)
(*                                                                         *)
(* The C++ call stack is the variable stack: a frame is one activation     *)
(* that waits for the result of a call, named for the place it waits at,   *)
(* with the part of its AST node built so far.  The variable call says     *)
(* what runs next: a parse function that is about to start, or "return",   *)
(* when ret is the result handed to the frame on top.                      *)
(*                                                                         *)
(* An AST node is abstracted to what its consumers can tell apart: a null  *)
(* pointer, an IdentifierNode (the only legal target of an assignment      *)
(* expression), another node, or a "hollow" one: a node below which an     *)
(* operand that the semantic analyzer and the generators dereference       *)
(* unchecked is null.                                                      *)
(***************************************************************************)
EXTENDS Integers, Sequences, FiniteSets

\* The lexemes that decide a branch somewhere, by what decides on them.
TypeKeywords ==
  { "int", "float", "double", "char", "bool", "void", "long", "short",
    "auto", "number", "string", "bytes", "list", "dict", "set", "matrix",
    "tuple", "Result", "Optional", "any", "Self", "owned", "borrowed", "ref" }

DeclarationKeywords == {"let", "const", "final"}

StatementKeywords == {"{", "if", "while", "for", "return"}
                       \cup DeclarationKeywords \cup TypeKeywords

BinaryLevels == { "parseLogicalOr", "parseLogicalAnd", "parseEquality",
                  "parseComparison", "parseTerm", "parseFactor" }

\* The loops of the binary levels differ in their operators ...
Operators(level) ==
  CASE level = "parseLogicalOr"  -> {"or", "||"}
    [] level = "parseLogicalAnd" -> {"and", "&&"}
    [] level = "parseEquality"   -> {"==", "!="}
    [] level = "parseComparison" -> {"<", "<=", ">", ">="}
    [] level = "parseTerm"       -> {"+", "-"}
    [] level = "parseFactor"     -> {"*", "/", "%"}

\* ... and in the function that parses their operands.
Operand(level) ==
  CASE level = "parseExpression" -> "parseLogicalOr"
    [] level = "parseLogicalOr"  -> "parseLogicalAnd"
    [] level = "parseLogicalAnd" -> "parseEquality"
    [] level = "parseEquality"   -> "parseComparison"
    [] level = "parseComparison" -> "parseTerm"
    [] level = "parseTerm"       -> "parseFactor"
    [] level = "parseFactor"     -> "parseUnary"
    [] level = "parseCall"       -> "parsePrimary"

Levels == BinaryLevels \cup {"parseExpression", "parseCall"}

Node == {"null", "identifier", "node", "hollow"}

NoNode == "none"

\* The empty string, which currentLexeme returns at the end of the stream.
NoLexeme == "<end>"

\* Where an activation can wait, by what it waits for there.
ExpressionFrames ==
  Levels \cup
  { "assignment value", "unary", "call argument", "paren", "if condition",
    "while condition", "for init", "for condition", "for increment",
    "return", "declaration", "typed declaration", "assignment", "expression" }

StatementFrames ==
  { "program statement", "block", "if then", "if else", "while body", "for body" }

Frames == ExpressionFrames \cup StatementFrames
            \cup {"program function", "function body", "for declaration"}

Frame == [at : Frames, node : Node \cup {NoNode}]

Calls == Levels \cup
  { "parse", "parseFunction", "parseParameterList", "parseFunctionBody",
    "parseBlock", "parseStatement", "parseDeclarationLike", "parseUnary",
    "parsePrimary", "synchronize", "return", "done" }

CONSTANTS Lexemes,     \* the lexemes a token can have
          Inputs       \* the token streams given to the parser

\* What a lexer emits: no token has an empty lexeme.
Token == [lexeme : Lexemes, kind : {"Identifier", "Literal", "Unknown"}]

ASSUME LexemesAssumption == NoLexeme \notin Lexemes

ASSUME InputsAssumption == Inputs \subseteq Seq(Token)

\* TokenKind has kinds of its own for punctuation.
Braces == {"{", "}"}

ASSUME PunctuationAssumption ==
  \A input \in Inputs : \A n \in DOMAIN input :
    input[n].lexeme \in Braces => input[n].kind = "Unknown"

VARIABLES
  tokens, pos, hadError,  \* Parser::tokens_, position_ (consumed), hadError_
  functions,              \* what parse() added to the ProgramNode
  names,                  \* lexemes consumed where a type or a name belongs
  stack, call, ret

vars == <<tokens, pos, hadError, functions, names, stack, call, ret>>

-----------------------------------------------------------------------------
(* The cursor *)

AtEnd(p) == p >= Len(tokens)

Lexeme(p) == IF AtEnd(p) THEN NoLexeme ELSE tokens[p + 1].lexeme

Kind(p) == IF AtEnd(p) THEN "Unknown" ELSE tokens[p + 1].kind

\* Mutant: getNextToken moves the cursor even at the end of the stream.
SkipPastTheEnd(p, n) == p + n

\* n times getNextToken, which at the end of the stream stays there.
Skip(p, n) == IF p + n <= Len(tokens) THEN p + n ELSE Len(tokens)

\* matchToken: the cursor moves only over the expected lexeme.
Match(p, lexeme) == IF Lexeme(p) = lexeme THEN p + 1 ELSE p

\* A node whose consumers dereference the required children unchecked, and
\* test the guarded ones for null.
MakeNode(required, guarded) ==
  IF "null" \in required \/ "hollow" \in required \cup guarded
  THEN "hollow" ELSE "node"

-----------------------------------------------------------------------------
(* Control: what becomes of the cursor, of the error flag and of the stack *)

Consume(p) == pos' = p /\ UNCHANGED hadError

Fail(p) == pos' = p /\ hadError' = TRUE

\* Most steps neither add a function to the program nor read a name.
Quiet == UNCHANGED <<tokens, functions, names>>

Top == stack[Len(stack)]

Popped == SubSeq(stack, 1, Len(stack) - 1)

Returned(at) == call = "return" /\ stack # <<>> /\ Top.at = at

\* A new activation waits at a place for what callee returns.
WaitAt(at, node, callee) ==
  /\ stack' = Append(stack, [at |-> at, node |-> node])
  /\ call' = callee /\ ret' = NoNode

\* The activation on top goes on and waits at another place.
MoveTo(at, node, callee) ==
  /\ stack' = Append(Popped, [at |-> at, node |-> node])
  /\ call' = callee /\ ret' = NoNode

TailCall(callee) == call' = callee /\ ret' = NoNode /\ UNCHANGED stack

\* A function without a frame returns to the frame on top ...
Return(node) == call' = "return" /\ ret' = node /\ UNCHANGED stack

\* ... and the activation that waits in the frame on top returns by popping it.
Finish(node) == call' = "return" /\ ret' = node /\ stack' = Popped

\* Mutant: a missing lexeme ends the production without setting hadError_.
MissingUnreported(lexeme) ==
  Lexeme(pos) # lexeme /\ Consume(pos) /\ Finish("null")

\* expectLexeme fails: the activation on top gives up.
Missing(lexeme) == Lexeme(pos) # lexeme /\ Fail(pos) /\ Finish("null")

Expect(lexeme, node) ==
  \/ Lexeme(pos) = lexeme /\ Consume(pos + 1) /\ Finish(node)
  \/ Missing(lexeme)

-----------------------------------------------------------------------------
(* parse *)

ProgramLoop ==
  /\ call = "parse" /\ Consume(pos) /\ Quiet
  /\ \/ AtEnd(pos) /\ TailCall("done")
     \/ Lexeme(pos) \in TypeKeywords
          /\ WaitAt("program function", NoNode, "parseFunction")
     \/ ~AtEnd(pos) /\ Lexeme(pos) \notin TypeKeywords
          /\ WaitAt("program statement", NoNode, "parseStatement")

ProgramAddFunction ==
  /\ Returned("program function") /\ ret \notin {NoNode, "null"}
  /\ functions' = Append(functions, ret)
  /\ stack' = Popped /\ call' = "parse" /\ ret' = NoNode
  /\ Consume(pos) /\ UNCHANGED <<tokens, names>>

\* What a failed function consumed stays consumed: the statement parser is
\* started in the middle of it.
ProgramRetryAsStatement ==
  /\ Returned("program function") /\ ret = "null"
  /\ MoveTo("program statement", NoNode, "parseStatement")
  /\ Consume(pos) /\ Quiet

\* A top-level statement is dropped.
ProgramAfterStatement ==
  /\ Returned("program statement") /\ ret # "null"
  /\ stack' = Popped /\ call' = "parse" /\ ret' = NoNode
  /\ Consume(pos) /\ Quiet

\* parse and parseBlock recover from a statement that could not be parsed ...
Recover ==
  /\ Returned("program statement") \/ Returned("block")
  /\ ret = "null" /\ TailCall("synchronize") /\ Consume(pos) /\ Quiet

\* Mutant: synchronize stops in front of the lexeme it looks for.
SynchronizeInFront ==
  /\ call = "synchronize" /\ Quiet
  /\ \/ /\ AtEnd(pos) \/ Lexeme(pos) \in {";", "}"}
        /\ Consume(pos) /\ Return(NoNode)
     \/ /\ ~AtEnd(pos) /\ Lexeme(pos) \notin {";", "}"}
        /\ Consume(pos + 1) /\ TailCall("synchronize")

\* ... by skipping to just behind the next ";" or "}": one turn of its loop.
Synchronize ==
  /\ call = "synchronize" /\ Quiet
  /\ \/ AtEnd(pos) /\ Consume(pos) /\ Return(NoNode)
     \/ Lexeme(pos) \in {";", "}"} /\ Consume(pos + 1) /\ Return(NoNode)
     \/ /\ ~AtEnd(pos) /\ Lexeme(pos) \notin {";", "}"}
        /\ Consume(pos + 1) /\ TailCall("synchronize")

-----------------------------------------------------------------------------
(* parseFunction and parseParameterList *)

FunctionHeader ==
  /\ call = "parseFunction"
  /\ LET name == Lexeme(pos + 1) IN
     /\ names' = names \cup {name}
     /\ \/ /\ name \in {NoLexeme, "("} \/ Lexeme(pos + 2) # "("
           /\ Consume(Skip(pos, 2)) /\ Return("null")
        \/ /\ name \notin {NoLexeme, "("} /\ Lexeme(pos + 2) = "("
           /\ Consume(pos + 3) /\ TailCall("parseParameterList")
  /\ UNCHANGED <<tokens, functions>>

\* Any two tokens are a parameter; a comma behind them leads to another turn,
\* and otherwise the closing parenthesis is optional.
Parameter ==
  /\ call = "parseParameterList" /\ ~AtEnd(pos) /\ Lexeme(pos) # ")"
  /\ names' = names \cup {Lexeme(pos), Lexeme(pos + 1)}
  /\ \/ /\ Lexeme(pos + 2) = ","
        /\ Consume(pos + 3) /\ TailCall("parseParameterList")
     \/ /\ Lexeme(pos + 2) # ","
        /\ Consume(Match(Skip(pos, 2), ")")) /\ TailCall("parseFunctionBody")
  /\ UNCHANGED <<tokens, functions>>

ParameterListEnd ==
  /\ call = "parseParameterList" /\ (AtEnd(pos) \/ Lexeme(pos) = ")")
  /\ Consume(Match(pos, ")")) /\ TailCall("parseFunctionBody") /\ Quiet

FunctionBody ==
  /\ call = "parseFunctionBody" /\ Quiet
  /\ \/ /\ Lexeme(pos) = "{"
        /\ Consume(pos + 1) /\ WaitAt("function body", NoNode, "parseBlock")
     \/ Lexeme(pos) # "{" /\ Consume(pos) /\ Return("null")

-----------------------------------------------------------------------------
(* parseBlock: between two statements, ret is NoNode *)

BlockStart ==
  call = "parseBlock" /\ WaitAt("block", "node", "return") /\ Consume(pos) /\ Quiet

BlockStatement ==
  /\ Returned("block") /\ ret = NoNode /\ ~AtEnd(pos) /\ Lexeme(pos) # "}"
  /\ TailCall("parseStatement") /\ Consume(pos) /\ Quiet

BlockAdd ==
  /\ Returned("block") /\ ret \notin {NoNode, "null"}
  /\ MoveTo("block", MakeNode({}, {Top.node, ret}), "return")
  /\ Consume(pos) /\ Quiet

\* Mutant: a block that the end of the stream cuts off is not reported.
BlockEndUnreported ==
  /\ Returned("block") /\ ret = NoNode /\ (AtEnd(pos) \/ Lexeme(pos) = "}")
  /\ Consume(Match(pos, "}")) /\ Finish(Top.node) /\ Quiet

BlockEnd ==
  /\ Returned("block") /\ ret = NoNode
  /\ (Lexeme(pos) = "}" /\ Consume(pos + 1)) \/ (AtEnd(pos) /\ Fail(pos))
  /\ Finish(Top.node) /\ Quiet

-----------------------------------------------------------------------------
(* parseStatement and the statements *)

StatementAtEnd ==
  call = "parseStatement" /\ AtEnd(pos) /\ Return("null") /\ Consume(pos) /\ Quiet

NestedBlock ==
  /\ call = "parseStatement" /\ Lexeme(pos) = "{"
  /\ TailCall("parseBlock") /\ Consume(pos + 1) /\ Quiet

\* Behind a header's parenthesis: a block, whose brace is consumed at once, or
\* a single statement.
Body(p) == IF Lexeme(p) = "{" THEN "parseBlock" ELSE "parseStatement"

\* if and while: the keyword, the parenthesis, the condition, ...
HeaderStart(keyword, at) ==
  /\ call = "parseStatement" /\ Lexeme(pos) = keyword /\ Quiet
  /\ \/ /\ Lexeme(pos + 1) = "("
        /\ Consume(pos + 2) /\ WaitAt(at, NoNode, "parseExpression")
     \/ Lexeme(pos + 1) # "(" /\ Fail(pos + 1) /\ Return("null")

\* ... and the closing parenthesis, behind which the body starts.
HeaderEnd(at, next, node) ==
  /\ Returned(at) /\ Quiet
  /\ \/ /\ Lexeme(pos) = ")"
        /\ Consume(Match(pos + 1, "{")) /\ MoveTo(next, node, Body(pos + 1))
     \/ Missing(")")

IfStart == HeaderStart("if", "if condition")

IfCondition == HeaderEnd("if condition", "if then", MakeNode({}, {ret}))

IfThen ==
  /\ Returned("if then") /\ Quiet
  /\ LET node == MakeNode({}, {Top.node, ret}) IN
     \/ /\ Lexeme(pos) = "otherwise"
        /\ Consume(Match(pos + 1, "{")) /\ MoveTo("if else", node, Body(pos + 1))
     \/ Lexeme(pos) # "otherwise" /\ Consume(pos) /\ Finish(node)

WhileStart == HeaderStart("while", "while condition")

WhileCondition == HeaderEnd("while condition", "while body", MakeNode({}, {ret}))

\* The condition and the increment of a for may be missing: the place that
\* waits for them is then handed no node at all.
Optional(p, stop) == IF Lexeme(p) = stop THEN "return" ELSE "parseExpression"

ForStart ==
  /\ call = "parseStatement" /\ Lexeme(pos) = "for" /\ Quiet
  /\ \/ Lexeme(pos + 1) # "(" /\ Fail(pos + 1) /\ Return("null")
     \/ /\ Lexeme(pos + 1) = "(" /\ Lexeme(pos + 2) = ";"
        /\ Consume(pos + 3)
        /\ WaitAt("for condition", "node", Optional(pos + 3, ";"))
     \/ /\ Lexeme(pos + 1) = "(" /\ Lexeme(pos + 2) \in DeclarationKeywords
        /\ Consume(pos + 3)
        /\ WaitAt("for declaration", NoNode, "parseDeclarationLike")
     \/ /\ Lexeme(pos + 1) = "("
        /\ Lexeme(pos + 2) \notin DeclarationKeywords \cup {";"}
        /\ Consume(pos + 2) /\ WaitAt("for init", NoNode, "parseExpression")

ForInit ==
  /\ Returned("for init") /\ Quiet
  /\ \/ /\ Lexeme(pos) = ";" /\ Consume(pos + 1)
        /\ MoveTo("for condition", MakeNode({}, {ret}), Optional(pos + 1, ";"))
     \/ Missing(";")

\* A declaration that failed does not stop the for: its condition is next.
ForDeclaration ==
  /\ Returned("for declaration") /\ Consume(pos) /\ Quiet
  /\ MoveTo("for condition", MakeNode({}, {ret}), Optional(pos, ";"))

ForCondition ==
  /\ Returned("for condition") /\ Quiet
  /\ \/ /\ Lexeme(pos) = ";" /\ Consume(pos + 1)
        /\ MoveTo("for increment", MakeNode({}, {Top.node, ret}),
                  Optional(pos + 1, ")"))
     \/ Missing(";")

ForIncrement ==
  HeaderEnd("for increment", "for body", MakeNode({}, {Top.node, ret}))

\* The last part is in; at the end of the stream a body may be null.
BodyDone ==
  /\ \E at \in {"function body", "if else", "while body", "for body"} : Returned(at)
  /\ Finish(MakeNode({}, {Top.node, ret})) /\ Consume(pos) /\ Quiet

ReturnStart ==
  /\ call = "parseStatement" /\ Lexeme(pos) = "return" /\ Quiet
  /\ \/ Lexeme(pos + 1) = ";" /\ Consume(pos + 2) /\ Return("node")
     \/ /\ Lexeme(pos + 1) # ";"
        /\ Consume(pos + 1) /\ WaitAt("return", NoNode, "parseExpression")

DeclarationKeyword ==
  /\ call = "parseStatement" /\ Lexeme(pos) \in DeclarationKeywords
  /\ TailCall("parseDeclarationLike") /\ Consume(pos + 1) /\ Quiet

\* One lexeme is the name; when neither "=" nor ";" follows, it was the type
\* and the next one is the name.  Any lexeme will do.
DeclarationLike ==
  /\ call = "parseDeclarationLike" /\ UNCHANGED <<tokens, functions>>
  /\ LET p == IF Lexeme(pos + 1) \in {NoLexeme, "=", ";"} THEN pos + 1 ELSE pos + 2 IN
     \/ AtEnd(pos) /\ Fail(pos) /\ Return("null") /\ UNCHANGED names
     \/ /\ Lexeme(p) = "="
        /\ names' = names \cup {Lexeme(pos), Lexeme(p - 1)}
        /\ Consume(p + 1) /\ WaitAt("declaration", NoNode, "parseExpression")
     \/ /\ ~AtEnd(pos) /\ Lexeme(p) # "="
        /\ names' = names \cup {Lexeme(pos), Lexeme(p - 1)}
        /\ Fail(p) /\ Return("null")

TypedDeclaration ==
  /\ call = "parseStatement" /\ Lexeme(pos) \in TypeKeywords
  /\ names' = names \cup {Lexeme(pos + 1)} /\ UNCHANGED <<tokens, functions>>
  /\ \/ /\ Lexeme(pos + 2) = "=" /\ Consume(pos + 3)
        /\ WaitAt("typed declaration", NoNode, "parseExpression")
     \/ Lexeme(pos + 2) = ";" /\ Consume(pos + 3) /\ Return("node")
     \/ Lexeme(pos + 2) \notin {"=", ";"} /\ Fail(Skip(pos, 2)) /\ Return("null")

\* These nodes' consumers tolerate a missing expression.
ExpressionThenSemicolon ==
  /\ \E at \in {"return", "declaration", "typed declaration"} : Returned(at)
  /\ Expect(";", MakeNode({}, {ret})) /\ Quiet

IsAssignment(p) == Kind(p) = "Identifier" /\ Lexeme(p + 1) = "="

AssignmentStart ==
  /\ call = "parseStatement"
  /\ Lexeme(pos) \notin StatementKeywords /\ IsAssignment(pos)
  /\ WaitAt("assignment", NoNode, "parseExpression") /\ Consume(pos + 2) /\ Quiet

AssignmentEnd ==
  Returned("assignment") /\ Expect(";", MakeNode({ret}, {})) /\ Quiet

ExpressionStatementStart ==
  /\ call = "parseStatement" /\ ~AtEnd(pos)
  /\ Lexeme(pos) \notin StatementKeywords /\ ~IsAssignment(pos)
  /\ WaitAt("expression", NoNode, "parseExpression") /\ Consume(pos) /\ Quiet

ExpressionStatementEnd ==
  /\ Returned("expression") /\ Quiet
  /\ \/ ret = "null" /\ Fail(pos) /\ Finish("null")
     \/ ret # "null" /\ Expect(";", MakeNode({}, {ret}))

-----------------------------------------------------------------------------
(* Expressions: one function per precedence level *)

\* parseExpression, the binary levels and parseCall begin by calling the next
\* level for their first operand.
Descend ==
  /\ call \in Levels
  /\ WaitAt(call, NoNode, Operand(call)) /\ Consume(pos) /\ Quiet

AssignmentTarget ==
  /\ Returned("parseExpression") /\ Quiet
  /\ \/ /\ Lexeme(pos) = "="
        /\ Consume(pos + 1) /\ MoveTo("assignment value", ret, "parseExpression")
     \/ Lexeme(pos) # "=" /\ Consume(pos) /\ Finish(ret)

AssignmentValue ==
  /\ Returned("assignment value") /\ Quiet
  /\ \/ /\ ret # "null" /\ Top.node = "identifier"
        /\ Consume(pos) /\ Finish(MakeNode({ret}, {}))
     \/ /\ ret = "null" \/ Top.node # "identifier"
        /\ Fail(pos) /\ Finish("null")

\* An operand is in: the first one, or the right one of an operator before.
BinaryOperand ==
  /\ \E at \in BinaryLevels :
       /\ Returned(at)
       /\ LET left == IF Top.node = NoNode THEN ret
                      ELSE MakeNode({Top.node, ret}, {})
          IN \/ /\ Lexeme(pos) \in Operators(at)
                /\ Consume(pos + 1) /\ MoveTo(at, left, Operand(at))
             \/ Lexeme(pos) \notin Operators(at) /\ Consume(pos) /\ Finish(left)
  /\ Quiet

\* Mutant: the operator is looked at and not consumed.
UnaryStartInPlace ==
  /\ call = "parseUnary" /\ Consume(pos) /\ Quiet
  /\ \/ Lexeme(pos) \in {"!", "-", "+"} /\ WaitAt("unary", NoNode, "parseUnary")
     \/ Lexeme(pos) \notin {"!", "-", "+"} /\ TailCall("parseCall")

UnaryStart ==
  /\ call = "parseUnary" /\ Quiet
  /\ \/ /\ Lexeme(pos) \in {"!", "-", "+"}
        /\ Consume(pos + 1) /\ WaitAt("unary", NoNode, "parseUnary")
     \/ /\ Lexeme(pos) \notin {"!", "-", "+"}
        /\ Consume(pos) /\ TailCall("parseCall")

UnaryEnd ==
  Returned("unary") /\ Finish(MakeNode({ret}, {})) /\ Consume(pos) /\ Quiet

\* The loop of parseCall: each "(" makes a call of what was parsed so far.
CallCallee ==
  /\ Returned("parseCall") /\ Quiet
  /\ \/ Lexeme(pos) # "(" /\ Consume(pos) /\ Finish(ret)
     \/ /\ Lexeme(pos) = "(" /\ Lexeme(pos + 1) = ")"
        /\ Consume(pos + 2) /\ Return(MakeNode({}, {ret}))
     \/ /\ Lexeme(pos) = "(" /\ Lexeme(pos + 1) # ")" /\ Consume(pos + 1)
        /\ MoveTo("call argument", MakeNode({}, {ret}), "parseExpression")

\* finishCall returns to that loop.
CallMade(node) ==
  /\ stack' = Append(Popped, [at |-> "parseCall", node |-> NoNode])
  /\ call' = "return" /\ ret' = node

CallArgument ==
  /\ Returned("call argument") /\ Quiet
  /\ LET node == MakeNode({}, {Top.node, ret}) IN
     \/ /\ Lexeme(pos) = ","
        /\ Consume(pos + 1) /\ MoveTo("call argument", node, "parseExpression")
     \/ Lexeme(pos) = ")" /\ Consume(pos + 1) /\ CallMade(node)
     \/ Lexeme(pos) \notin {",", ")"} /\ Fail(pos) /\ CallMade("null")

\* Mutant: a token that starts no expression is not reported.
PrimaryUnreported ==
  /\ call = "parsePrimary" /\ Quiet
  /\ \/ /\ Lexeme(pos) = "("
        /\ Consume(pos + 1) /\ WaitAt("paren", NoNode, "parseExpression")
     \/ /\ Lexeme(pos) # "(" /\ Kind(pos) # "Unknown"
        /\ Consume(pos + 1)
        /\ Return(IF Kind(pos) = "Identifier" THEN "identifier" ELSE "node")
     \/ /\ Lexeme(pos) # "(" /\ Kind(pos) = "Unknown"
        /\ Consume(pos) /\ Return("null")

Primary ==
  /\ call = "parsePrimary" /\ Quiet
  /\ \/ /\ Lexeme(pos) = "("
        /\ Consume(pos + 1) /\ WaitAt("paren", NoNode, "parseExpression")
     \/ /\ Lexeme(pos) # "(" /\ Kind(pos) = "Identifier"
        /\ Consume(pos + 1) /\ Return("identifier")
     \/ /\ Lexeme(pos) # "(" /\ Kind(pos) = "Literal"
        /\ Consume(pos + 1) /\ Return("node")
     \/ /\ Lexeme(pos) # "(" /\ Kind(pos) = "Unknown"
        /\ Fail(pos) /\ Return("null")

ParenEnd == Returned("paren") /\ Expect(")", ret) /\ Quiet

-----------------------------------------------------------------------------
Init ==
  /\ tokens \in Inputs /\ pos = 0 /\ hadError = FALSE
  /\ functions = <<>> /\ names = {}
  /\ stack = <<>> /\ call = "parse" /\ ret = NoNode

\* parse() has returned; nothing else happens.
Terminated == call = "done" /\ UNCHANGED vars

FunctionNext ==
  \/ ProgramLoop \/ ProgramAddFunction \/ ProgramRetryAsStatement
  \/ ProgramAfterStatement \/ Recover \/ Synchronize
  \/ FunctionHeader \/ Parameter \/ ParameterListEnd \/ FunctionBody

StatementNext ==
  \/ BlockStart \/ BlockStatement \/ BlockAdd \/ BlockEnd
  \/ StatementAtEnd \/ NestedBlock \/ BodyDone
  \/ IfStart \/ IfCondition \/ IfThen \/ WhileStart \/ WhileCondition
  \/ ForStart \/ ForInit \/ ForDeclaration \/ ForCondition \/ ForIncrement
  \/ ReturnStart \/ DeclarationKeyword \/ DeclarationLike \/ TypedDeclaration
  \/ ExpressionThenSemicolon \/ AssignmentStart \/ AssignmentEnd
  \/ ExpressionStatementStart \/ ExpressionStatementEnd

ExpressionNext ==
  \/ Descend \/ AssignmentTarget \/ AssignmentValue \/ BinaryOperand
  \/ UnaryStart \/ UnaryEnd \/ CallCallee \/ CallArgument \/ Primary \/ ParenEnd

Next == FunctionNext \/ StatementNext \/ ExpressionNext \/ Terminated

Spec == Init /\ [][Next]_vars

\* One thread runs the parser and nothing blocks it.
FairSpec == Spec /\ WF_vars(Next)

-----------------------------------------------------------------------------
(* Correctness *)

TypeOK ==
  /\ tokens \in Seq(Token)
  /\ pos \in 0 .. Len(tokens)
  /\ hadError \in BOOLEAN
  /\ functions \in Seq(Node)
  /\ names \subseteq Lexemes \cup {NoLexeme}
  /\ stack \in Seq(Frame)
  /\ call \in Calls
  /\ ret \in Node \cup {NoNode}

(***************************************************************************)
(* A null result is never silent: hadError_ is set before any caller sees  *)
(* a null pointer.  Two nulls are no error: parseStatement at the end of   *)
(* the stream, and parseFunction, after which parse() tries a statement.   *)
(***************************************************************************)
NullIsReported ==
  call = "return" /\ ret = "null" =>
    \/ hadError
    \/ Top.at = "program function"
    \/ AtEnd(pos) /\ Top.at \in StatementFrames

(***************************************************************************)
(* compileWithCodegen goes on to the semantic analyzer and the generator   *)
(* when hadError() is false, and those dereference the operands of binary, *)
(* unary and assignment nodes unchecked: no function of an accepted        *)
(* program has a null operand anywhere in its tree.                        *)
(***************************************************************************)
AcceptedTreesAreWhole ==
  hadError \/ \A i \in 1 .. Len(functions) : functions[i] \notin {"null", "hollow"}

(***************************************************************************)
(* The depth of the C++ recursion is paid for in consumed tokens: an       *)
(* activation chain from parseStatement down to parsePrimary is at most    *)
(* ten deep, and only a consumed "(" or "=" can start another one.  No     *)
(* input makes the parser recurse without reading.                         *)
(***************************************************************************)
RecursionNeedsTokens == Len(stack) <= 9 * pos + 10

Count(lexeme, n) == Cardinality({i \in 1 .. n : tokens[i].lexeme = lexeme})

(***************************************************************************)
(* The blocks of an accepted program are closed where they were opened:    *)
(* recovery, early returns and optional lexemes never lose or invent the   *)
(* end of a block, unless the source has a brace where a type or a name    *)
(* belongs.                                                                *)
(***************************************************************************)
AcceptedBracesBalance ==
  call = "done" /\ ~hadError /\ names \cap Braces = {} =>
    /\ Count("{", Len(tokens)) = Count("}", Len(tokens))
    /\ \A n \in 1 .. Len(tokens) : Count("{", n) >= Count("}", n)

(***************************************************************************)
(* docs/compiler_architecture.md: "If syntax errors occur, diagnostics are *)
(* emitted and semantic analysis is skipped."  A source whose first token  *)
(* is a type keyword starts a function, so when it is accepted the program *)
(* has a function.                                                         *)
(***************************************************************************)
AcceptedFunctionsAreKept ==
  call = "done" /\ ~hadError /\ Len(tokens) > 0 => 
    (tokens[1].lexeme \in TypeKeywords => functions # <<>>)

(***************************************************************************)
(* The parser terminates on every input: each turn of each loop, the       *)
(* recovery included, consumes a token or ends the loop.                   *)
(***************************************************************************)
Terminates == <>(call = "done")
=============================================================================
