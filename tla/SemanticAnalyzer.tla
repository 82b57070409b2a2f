-------------------------- MODULE SemanticAnalyzer --------------------------
(***************************************************************************)
(* semantic::SemanticAnalyzer of src/semantic/SemanticAnalyzer.cpp with    *)
(* the SymbolScope tree of src/semantic/SymbolTable.cpp.                   *)
(*                                                                         *)
(* An AST is a function from paths to nodes: <<>> is the ProgramNode, and  *)
(* the child in slot i of the node at p is at Append(p, i); a null child   *)
(* is a path outside the domain.  The C++ recursion over the tree is an    *)
(* agenda of what is left to do, the next task first.                      *)
(***************************************************************************)
EXTENDS Integers, Sequences, SequencesExt

CONSTANTS Name,       \* identifiers
          Programs    \* the ASTs analysed, each a function from paths to nodes

NoType == "no type"   \* a null TypePtr, or an empty type name

Builtins == { "void", "bool", "byte", "number", "int", "float", "double",
              "char", "string", "any", "bytes", "list", "dict" }

\* TypeContext::getBuiltin
Builtin(type) == IF type \in Builtins THEN type ELSE NoType

-----------------------------------------------------------------------------
(* The trees that the parser makes of programs without a syntax error *)

StatementKinds == { "block", "if", "while", "for", "return", "declaration",
                    "assignment", "expression" }

ExpressionKinds ==
  { "literal", "identifier", "unary", "binary", "call", "assignment" }

\* The kinds of node that can be the child in slot i of a node.
KindsAt(node, i) ==
  CASE node.kind = "program"  -> {"function"}
    [] node.kind = "function" -> IF i < node.arity THEN {"parameter"} ELSE {"block"}
    [] node.kind = "block"    -> StatementKinds
    [] node.kind \in {"if", "while"} ->
         IF i = 1 THEN ExpressionKinds ELSE StatementKinds
    [] node.kind = "for" ->
         IF i = 1 THEN {"declaration", "expression"}
         ELSE IF i = 4 THEN StatementKinds ELSE ExpressionKinds
    [] node.kind \in {"declaration", "return", "expression"} \cup ExpressionKinds ->
         ExpressionKinds
    [] OTHER -> {}

\* The numbers of slots that a node of a kind can have.
Arities(kind) ==
  CASE kind \in {"literal", "identifier", "parameter"} -> {0}
    [] kind \in {"declaration", "assignment", "return", "expression", "unary"} -> {1}
    [] kind \in {"binary", "while"} -> {2}
    [] kind = "if" -> {3}
    [] kind = "for" -> {4}
    [] kind \in {"call", "function"} -> Nat \ {0}
    [] OTHER -> Nat

\* No child of these is null.
Full == {"function", "block", "assignment", "unary", "binary", "call"}

DeclarerKinds == {"function", "parameter", "declaration"}

WellFormed(tree) ==
  /\ IsFiniteSet(DOMAIN tree) /\ DOMAIN tree \subseteq Seq(Nat)
  /\ <<>> \in DOMAIN tree
  /\ \A p \in DOMAIN tree :
       /\ IF p = <<>> THEN tree[p].kind = "program"
          ELSE /\ Front(p) \in DOMAIN tree
               /\ Last(p) \in 1 .. tree[Front(p)].arity
               /\ tree[p].kind \in KindsAt(tree[Front(p)], Last(p))
       /\ tree[p].arity \in Arities(tree[p].kind)
       /\ tree[p].kind \in Full =>
            \A i \in 1 .. tree[p].arity : Append(p, i) \in DOMAIN tree
       /\ tree[p].kind \in DeclarerKinds => tree[p].name \in Name
       /\ tree[p].kind \in {"function", "parameter"} => tree[p].type # NoType
       /\ tree[p].kind = "literal" => tree[p].type \in {"bool", "int", "float", "string"}

ASSUME ProgramsAssumption == \A tree \in Programs : WellFormed(tree)

VARIABLES
  ast,
  agenda,       \* the calls that are still to be made
  scopes,       \* the SymbolScopes in the order of their creation; the first
                \* one is globalScope_
  current,      \* currentScope_, 0 when it is reset
  hasReturn,    \* hasReturnStatement_
  reports,      \* the errors in diagnostics_, by what they say of which node
  status        \* "start", "running", "done" (analyze returned), "crashed"

vars == <<ast, agenda, scopes, current, hasReturn, reports, status>>

-----------------------------------------------------------------------------
(* Scopes *)

\* The symbols of a scope are a set of records with distinct names; a scope
\* remembers the node it was made for.
Scope(parent, at) == [parent |-> parent, at |-> at, symbols |-> {}]

Symbol(name, kind, type) ==
  [name |-> name, kind |-> kind, type |-> type, isInitialized |-> FALSE]

\* SymbolScope::lookupLocal
LocalSymbols(s, name) == {symbol \in scopes[s].symbols : symbol.name = name}

\* SymbolScope::lookup: the symbol in the nearest scope that has the name.
Lookup(name) ==
  LET find[s \in 0 .. Len(scopes)] ==
        IF s = 0 \/ LocalSymbols(s, name) # {} THEN s ELSE find[scopes[s].parent]
  IN IF find[current] = 0 THEN {} ELSE LocalSymbols(find[current], name)

\* SymbolScope::declare: emplace leaves the symbol that is there.
With(scope, symbol) ==
  IF \E other \in scope.symbols : other.name = symbol.name
  THEN scope ELSE [scope EXCEPT !.symbols = @ \cup {symbol}]

-----------------------------------------------------------------------------
(* The agenda *)

Task(do, at) == [do |-> do, at |-> at, saved |-> 0]

\* Visit the children in the slots from .. to that are not null.
Visits(at, from, to) ==
  LET visits[slot \in from - 1 .. to] ==
        CASE slot < from -> <<>>
          [] slot >= from /\ Append(at, slot) \in DOMAIN ast ->
               Append(visits[slot - 1], Task("visit", Append(at, slot)))
          [] slot >= from /\ Append(at, slot) \notin DOMAIN ast -> visits[slot - 1]
  IN visits[to]

Now == Head(agenda)

\* The next task is done, and more is to be done before the rest.
Then(tasks) == agenda' = tasks \o Tail(agenda)

At(do, kind) ==
  /\ status = "running" /\ agenda # <<>>
  /\ Now.do = do /\ ast[Now.at].kind = kind

Error(what, at) == [what |-> what, at |-> at]

-----------------------------------------------------------------------------
(* checkExpressionType: a type, the errors reported on the way, and whether *)
(* a null type was dereferenced.                                            *)

Arithmetic == {"+", "-", "*", "/"}

Typing(type, errors, crash) == [type |-> type, errors |-> errors, crash |-> crash]

\* What names resolve to in the current scope, and how a binary operation
\* treats two types: a null one is dereferenced when the types differ and the
\* operator is arithmetic, unless the left one is a float.
BinaryType(op, left, right) ==
  CASE left = right /\ left # NoType -> Typing(left, {}, FALSE)
    [] ~(left = right /\ left # NoType) /\ op \notin Arithmetic ->
         Typing("bool", {}, FALSE)
    [] ~(left = right /\ left # NoType) /\ op \in Arithmetic ->
         Typing(IF "float" \in {left, right} THEN "float" ELSE "int", {},
                left = NoType \/ (left # "float" /\ right = NoType))

\* The type of an expression, given those of its operands.
ExpressionType(check, p) ==
  CASE ast[p].kind = "literal" -> Typing(ast[p].type, {}, FALSE)
    [] ast[p].kind = "identifier" /\ Lookup(ast[p].name) # {} ->
         Typing((CHOOSE s \in Lookup(ast[p].name) : TRUE).type, {}, FALSE)
    [] ast[p].kind = "identifier" /\ Lookup(ast[p].name) = {} ->
         Typing("any", {Error("undefined identifier", p)}, FALSE)
    [] ast[p].kind = "binary" ->
         LET left  == check[Append(p, 1)]
             right == check[Append(p, 2)]
             both  == BinaryType(ast[p].name, left.type, right.type)
         IN Typing(both.type, left.errors \cup right.errors,
                   left.crash \/ right.crash \/ both.crash)
    [] ast[p].kind = "unary" -> check[Append(p, 1)]
    [] ast[p].kind = "call" ->
         LET callee == ast[Append(p, 1)] IN
         Typing(IF /\ callee.kind = "identifier"
                   /\ \E s \in Lookup(callee.name) : s.kind = "function"
                THEN (CHOOSE s \in Lookup(callee.name) : TRUE).type
                ELSE "any", {}, FALSE)
    [] OTHER -> Typing("any", {}, FALSE)

TypeOf(path) ==
  LET check[p \in DOMAIN ast] == ExpressionType(check, p) IN check[path]

\* Two types that are known and differ.
Mismatch(t, u) == t # u /\ {t, u} \cap {NoType, "any"} = {}

\* The expressions in paths are checked, and errors is found besides.
Checked(paths, errors) ==
  LET crash == \E p \in paths : TypeOf(p).crash IN
  /\ status' = IF crash THEN "crashed" ELSE status
  /\ reports' = reports \cup (UNION {TypeOf(p).errors : p \in paths})
                        \cup (IF crash THEN {} ELSE errors)

-----------------------------------------------------------------------------
(* Declarations *)

Analyze ==
  /\ status = "start" /\ status' = "running"
  /\ scopes' = <<Scope(0, <<>>)>> /\ current' = 1
  /\ agenda' = <<Task("visit", <<>>)>>
  /\ UNCHANGED <<ast, hasReturn, reports>>

VisitProgram ==
  /\ At("visit", "program") /\ Then(Visits(Now.at, 1, ast[Now.at].arity))
  /\ UNCHANGED <<ast, scopes, current, hasReturn, reports, status>>

\* A new scope below the current one becomes the current one.
Push(scope) ==
  scopes' = Append(scopes, scope) /\ current' = Len(scopes) + 1

\* An unknown type is reported and replaced.
Known(type, fallback) == IF Builtin(type) = NoType THEN fallback ELSE type

UnknownType(at) ==
  IF Builtin(ast[at].type) = NoType /\ ast[at].type # NoType
  THEN {Error("unknown type", at)} ELSE {}

\* Mutant: an unknown type is kept ...
DeclaredTypeAsWritten(at) == ast[at].type

\* ... or leaves the variable without one.
DeclaredTypeNull(at) == Builtin(ast[at].type)

\* Without a type, a variable is declared with a null one.
DeclaredType(at) ==
  IF ast[at].type = NoType THEN NoType ELSE Known(ast[at].type, "any")

ReturnType(at) == Known(ast[at].type, "void")

Parameters(at) == {Append(at, i) : i \in 1 .. ast[at].arity - 1}

\* The parameter has the name of an earlier one.
Repeated(p) ==
  \E i \in 1 .. Last(p) - 1 : ast[Append(Front(p), i)].name = ast[p].name

ParameterErrors(at) ==
  (UNION {UnknownType(p) : p \in Parameters(at)})
    \cup {Error("redeclared", p) : p \in {q \in Parameters(at) : Repeated(q)}}

ParameterScope(at) ==
  [Scope(current, at) EXCEPT !.symbols =
     {Symbol(ast[p].name, "variable", DeclaredType(p)) :
        p \in {q \in Parameters(at) : ~Repeated(q)}}]

Redeclared(at) ==
  IF LocalSymbols(current, ast[at].name) # {} THEN {Error("redeclared", at)} ELSE {}

\* Mutant: hasReturnStatement_ keeps what an earlier function left in it.
VisitFunctionUnreset ==
  /\ At("visit", "function")
  /\ LET f      == Now.at
         symbol == Symbol(ast[f].name, "function", ReturnType(f))
     IN
     /\ scopes' = Append([scopes EXCEPT ![current] = With(@, symbol)],
                         ParameterScope(f))
     /\ current' = Len(scopes) + 1
     /\ reports' = reports \cup UnknownType(f) \cup Redeclared(f)
                           \cup ParameterErrors(f)
     /\ Then(Visits(f, ast[f].arity, ast[f].arity)
               \o <<[do |-> "leave", at |-> f, saved |-> current]>>)
  /\ UNCHANGED <<ast, status, hasReturn>>

VisitFunction ==
  /\ At("visit", "function")
  /\ LET f      == Now.at
         symbol == Symbol(ast[f].name, "function", ReturnType(f))
     IN
     /\ scopes' = Append([scopes EXCEPT ![current] = With(@, symbol)],
                         ParameterScope(f))
     /\ current' = Len(scopes) + 1
     /\ reports' = reports \cup UnknownType(f) \cup Redeclared(f)
                           \cup ParameterErrors(f)
     /\ hasReturn' = (hasReturn /\ ReturnType(f) = "void")
     /\ Then(Visits(f, ast[f].arity, ast[f].arity)
               \o <<[do |-> "leave", at |-> f, saved |-> current]>>)
  /\ UNCHANGED <<ast, status>>

\* The last statement is looked at when no return has been visited.
MissingReturn(f) ==
  LET body == Append(f, ast[f].arity)
      last == Append(body, ast[body].arity)
  IN /\ ReturnType(f) # "void" /\ ~hasReturn
     /\ ast[body].arity > 0 /\ ast[last].kind # "return"

\* Mutant: the scope from before the function is not made the current one again.
LeaveFunctionUnrestored ==
  /\ At("leave", "function")
  /\ reports' = reports \cup
       (IF MissingReturn(Now.at) THEN {Error("missing return", Now.at)} ELSE {})
  /\ Then(<<>>) /\ UNCHANGED <<ast, scopes, current, hasReturn, status>>

LeaveFunction ==
  /\ At("leave", "function") /\ current' = Now.saved
  /\ reports' = reports \cup
       (IF MissingReturn(Now.at) THEN {Error("missing return", Now.at)} ELSE {})
  /\ Then(<<>>) /\ UNCHANGED <<ast, scopes, hasReturn, status>>

VisitDeclaration ==
  /\ At("visit", "declaration")
  /\ LET d      == Now.at
         symbol == Symbol(ast[d].name, "variable", DeclaredType(d))
     IN
     /\ reports' = reports \cup UnknownType(d) \cup Redeclared(d)
     /\ scopes' = [scopes EXCEPT ![current] = With(@, symbol)]
     /\ Then(IF Append(d, 1) \in DOMAIN ast
             THEN <<Task("initializer", d)>> ELSE <<>>)
  /\ UNCHANGED <<ast, current, hasReturn, status>>

\* The symbol that is marked as initialized is a copy of the declared one.
CheckInitializer ==
  /\ At("initializer", "declaration")
  /\ LET init == Append(Now.at, 1) IN
     Checked({init}, IF Mismatch(DeclaredType(Now.at), TypeOf(init).type)
                     THEN {Error("type mismatch", Now.at)} ELSE {})
  /\ Then(<<>>) /\ UNCHANGED <<ast, scopes, current, hasReturn>>

-----------------------------------------------------------------------------
(* Statements *)

VisitBlock ==
  /\ At("visit", "block") /\ Push(Scope(current, Now.at))
  /\ Then(Visits(Now.at, 1, ast[Now.at].arity) \o <<Task("pop", Now.at)>>)
  /\ UNCHANGED <<ast, hasReturn, reports, status>>

PopScope ==
  /\ status = "running" /\ agenda # <<>> /\ Now.do = "pop"
  /\ current' = IF scopes[current].parent = 0 THEN current
                ELSE scopes[current].parent
  /\ Then(<<>>) /\ UNCHANGED <<ast, scopes, hasReturn, reports, status>>

\* Mutant: an assignment to an undefined identifier is skipped silently.
VisitAssignmentUnreported ==
  /\ At("visit", "assignment")
  /\ LET value  == Append(Now.at, 1)
         symbol == Lookup(ast[Now.at].name)
     IN \/ symbol = {} /\ UNCHANGED <<reports, status>>
        \/ \E s \in symbol :
             Checked({value}, IF Mismatch(s.type, TypeOf(value).type)
                              THEN {Error("type mismatch", Now.at)} ELSE {})
  /\ Then(<<>>) /\ UNCHANGED <<ast, scopes, current, hasReturn>>

\* The value of an assignment to an undefined identifier is not looked at.
VisitAssignment ==
  /\ At("visit", "assignment")
  /\ LET value  == Append(Now.at, 1)
         symbol == Lookup(ast[Now.at].name)
     IN \/ symbol = {} /\ Checked({}, {Error("undefined target", Now.at)})
        \/ \E s \in symbol :
             Checked({value}, IF Mismatch(s.type, TypeOf(value).type)
                              THEN {Error("type mismatch", Now.at)} ELSE {})
  /\ Then(<<>>) /\ UNCHANGED <<ast, scopes, current, hasReturn>>

VisitReturn ==
  /\ At("visit", "return") /\ hasReturn' = TRUE
  /\ LET value == Visits(Now.at, 1, 1) IN
     Then(value \o (IF value = <<>> THEN <<>> ELSE <<Task("value", Now.at)>>))
  /\ UNCHANGED <<ast, scopes, current, reports, status>>

CheckReturn ==
  /\ At("value", "return")
  /\ LET value == Append(Now.at, 1) IN
     Checked({value}, IF TypeOf(value).type = NoType
                      THEN {Error("invalid return", Now.at)} ELSE {})
  /\ Then(<<>>) /\ UNCHANGED <<ast, scopes, current, hasReturn>>

\* The condition in a slot is visited, and then its type is checked.
Condition(at, slot) ==
  LET visit == Visits(at, slot, slot) IN
  visit \o (IF visit = <<>> THEN <<>> ELSE <<Task("condition", Append(at, slot))>>)

VisitIfOrWhile ==
  /\ At("visit", "if") \/ At("visit", "while")
  /\ Then(Condition(Now.at, 1) \o Visits(Now.at, 2, ast[Now.at].arity))
  /\ UNCHANGED <<ast, scopes, current, hasReturn, reports, status>>

\* Mutant: a for makes no scope of its own.
VisitForUnscoped ==
  /\ At("visit", "for")
  /\ Then(Visits(Now.at, 1, 1) \o Condition(Now.at, 2)
            \o Visits(Now.at, 3, 4) \o <<Task("pop", Now.at)>>)
  /\ UNCHANGED <<ast, scopes, current, hasReturn, reports, status>>

VisitFor ==
  /\ At("visit", "for") /\ Push(Scope(current, Now.at))
  /\ Then(Visits(Now.at, 1, 1) \o Condition(Now.at, 2)
            \o Visits(Now.at, 3, 4) \o <<Task("pop", Now.at)>>)
  /\ UNCHANGED <<ast, hasReturn, reports, status>>

CheckCondition ==
  /\ status = "running" /\ agenda # <<>> /\ Now.do = "condition"
  /\ Checked({Now.at}, IF TypeOf(Now.at).type \in {NoType, "bool", "any"} THEN {}
                       ELSE {Error("not boolean", Now.at)})
  /\ Then(<<>>) /\ UNCHANGED <<ast, scopes, current, hasReturn>>

-----------------------------------------------------------------------------
(* Expressions that are visited *)

VisitOperand ==
  /\ At("visit", "expression") \/ At("visit", "unary")
  /\ Then(Visits(Now.at, 1, 1))
  /\ UNCHANGED <<ast, scopes, current, hasReturn, reports, status>>

VisitBinary ==
  /\ At("visit", "binary")
  /\ Then(Visits(Now.at, 1, 2) \o <<Task("operands", Now.at)>>)
  /\ UNCHANGED <<ast, scopes, current, hasReturn, reports, status>>

CheckOperands ==
  /\ At("operands", "binary")
  /\ LET left  == TypeOf(Append(Now.at, 1)).type
         right == TypeOf(Append(Now.at, 2)).type
         wrong == /\ Mismatch(left, right)
                  /\ ast[Now.at].name \in Arithmetic =>
                       {left, right} # {"int", "float"}
     IN Checked({Append(Now.at, 1), Append(Now.at, 2)},
                IF wrong THEN {Error("operand mismatch", Now.at)} ELSE {})
  /\ Then(<<>>) /\ UNCHANGED <<ast, scopes, current, hasReturn>>

\* Only a callee that is a name is checked.
VisitCall ==
  /\ At("visit", "call")
  /\ LET callee == ast[Append(Now.at, 1)] IN
     Checked({}, IF /\ callee.kind = "identifier"
                    /\ \A s \in Lookup(callee.name) : s.kind # "function"
                 THEN {Error("undefined function", Now.at)} ELSE {})
  /\ Then(Visits(Now.at, 1, ast[Now.at].arity))
  /\ UNCHANGED <<ast, scopes, current, hasReturn>>

\* A name that is visited is not looked up.
VisitLeaf ==
  /\ At("visit", "literal") \/ At("visit", "identifier")
  /\ Then(<<>>) /\ UNCHANGED <<ast, scopes, current, hasReturn, reports, status>>

-----------------------------------------------------------------------------
Init ==
  /\ ast \in Programs
  /\ agenda = <<>> /\ scopes = <<>> /\ current = 0
  /\ hasReturn = FALSE /\ reports = {} /\ status = "start"

Finish ==
  /\ status = "running" /\ agenda = <<>>
  /\ status' = "done" /\ current' = 0
  /\ UNCHANGED <<ast, agenda, scopes, hasReturn, reports>>

Terminated == status \in {"done", "crashed"} /\ UNCHANGED vars

Next ==
  \/ Analyze \/ VisitProgram \/ VisitFunction \/ LeaveFunction
  \/ VisitDeclaration \/ CheckInitializer \/ VisitBlock \/ PopScope
  \/ VisitAssignment \/ VisitReturn \/ CheckReturn
  \/ VisitIfOrWhile \/ VisitFor \/ CheckCondition
  \/ VisitOperand \/ VisitBinary \/ CheckOperands \/ VisitCall \/ VisitLeaf
  \/ Finish \/ Terminated

Spec == Init /\ [][Next]_vars

-----------------------------------------------------------------------------
(* Lexical scoping, defined on the tree *)

ScopeKinds == {"program", "function", "block", "for"}

Declarers == {d \in DOMAIN ast : ast[d].kind \in DeclarerKinds}

\* The innermost node above p that has a scope of its own.
EnclosingScope(p) ==
  SubSeq(p, 1, Max({n \in 0 .. Len(p) - 1 : ast[SubSeq(p, 1, n)].kind \in ScopeKinds}))

\* d is above p, or comes before it in the source.
Precedes(d, p) ==
  \/ IsStrictPrefix(d, p)
  \/ \E n \in 0 .. Len(p) - 1 :
       n < Len(d) /\ SubSeq(d, 1, n) = SubSeq(p, 1, n) /\ d[n + 1] < p[n + 1]

Visible(name, p) ==
  {d \in Declarers : /\ ast[d].name = name /\ Precedes(d, p)
                     /\ IsPrefix(EnclosingScope(d), p)}

\* What a name means at p: the first declaration in the innermost scope.
Resolve(name, p) ==
  {d \in Visible(name, p) : \A e \in Visible(name, p) \ {d} :
     \/ IsStrictPrefix(EnclosingScope(e), EnclosingScope(d))
     \/ EnclosingScope(e) = EnclosingScope(d) /\ Precedes(d, e)}

\* What a declaration stores in the symbol table.
Declared(d) ==
  IF ast[d].kind = "function" THEN [kind |-> "function", type |-> ReturnType(d)]
                              ELSE [kind |-> "variable", type |-> DeclaredType(d)]

-----------------------------------------------------------------------------
(* Correctness *)

Whats == { "unknown type", "redeclared", "missing return", "type mismatch",
           "undefined identifier", "undefined target", "undefined function",
           "invalid return", "not boolean", "operand mismatch" }

TypeOK ==
  /\ \A i \in DOMAIN agenda : agenda[i].at \in DOMAIN ast
  /\ current \in 0 .. Len(scopes)
  /\ \A s \in DOMAIN scopes :
       /\ scopes[s].parent \in 0 .. s - 1 /\ scopes[s].at \in DOMAIN ast
       /\ \A symbol \in scopes[s].symbols :
            symbol.name \in Name /\ symbol.type \in Builtins \cup {NoType}
  /\ hasReturn \in BOOLEAN
  /\ \A e \in reports : e.what \in Whats /\ e.at \in DOMAIN ast
  /\ status \in {"start", "running", "done", "crashed"}

\* Where the names that the next task looks up stand in the source.
Position == IF Now.do = "initializer" THEN Append(Now.at, 1) ELSE Now.at

(***************************************************************************)
(* The scopes that pushScope, popScope and savedScope leave behind after   *)
(* any sequence of blocks, loops and functions mean lexical scoping:       *)
(* wherever the analyzer is, every name it could look up resolves to the   *)
(* declaration that is visible there, and to none that is not.             *)
(***************************************************************************)
LookupIsLexical ==
  status = "running" /\ agenda # <<>> /\ Now.do \notin {"pop", "leave"} =>
    \A name \in Name :
      {[kind |-> s.kind, type |-> s.type] : s \in Lookup(name)}
        = {Declared(d) : d \in Resolve(name, Position)}

Accepted == status = "done" /\ reports = {}

\* p is in no initializer and in no assigned value: those are only typed.
Visited(p) ==
  \A n \in 0 .. Len(p) - 1 : ast[SubSeq(p, 1, n)].kind \notin {"declaration", "assignment"}

(***************************************************************************)
(* docs/feature_matrix.md: the analyzer "validates redeclarations, checks  *)
(* assignments to undefined identifiers".  In an accepted program no scope *)
(* declares a name twice and every assigned name is declared, wherever the *)
(* assignment stands in statements, conditions, arguments and the headers  *)
(* of loops.  Only one inside an initializer or an assigned value escapes. *)
(***************************************************************************)
AcceptedProgramsAreDeclared ==
  Accepted =>
    /\ \A d, e \in Declarers :
         d # e /\ EnclosingScope(d) = EnclosingScope(e) => ast[d].name # ast[e].name
    /\ \A p \in DOMAIN ast :
         ast[p].kind = "assignment" /\ Visited(p) => Resolve(ast[p].name, p) # {}

(***************************************************************************)
(* An accepted function with a type other than void and with a statement   *)
(* in its body has a return: one that an earlier function's body contains  *)
(* does not count.                                                         *)
(***************************************************************************)
AcceptedFunctionsReturn ==
  Accepted =>
    \A f \in DOMAIN ast :
      /\ ast[f].kind = "function" /\ ReturnType(f) # "void"
      /\ ast[Append(f, ast[f].arity)].arity > 0
      => \E p \in DOMAIN ast : IsPrefix(f, p) /\ ast[p].kind = "return"

(***************************************************************************)
(* checkExpressionType dereferences the types of arithmetic operands: they *)
(* can only be null when a variable was declared without a type.           *)
(***************************************************************************)
OnlyUntypedVariablesCrash ==
  status = "crashed" =>
    \E d \in Declarers : ast[d].kind = "declaration" /\ ast[d].type = NoType

(***************************************************************************)
(* docs/compiler_architecture.md: the analyzer "enforces rules (no         *)
(* redeclarations, references must resolve)".                              *)
(***************************************************************************)
ReferencesResolve ==
  Accepted => \A p \in DOMAIN ast :
                ast[p].kind = "identifier" => Resolve(ast[p].name, p) # {}

(***************************************************************************)
(* src/semantic/SemanticAnalyzer.cpp: "comparison ops return bool": a      *)
(* comparison is a legal condition.                                        *)
(***************************************************************************)
ComparisonsAreConditions ==
  \A e \in reports : e.what = "not boolean" =>
    ast[e.at].kind # "binary" \/ ast[e.at].name \in Arithmetic

(***************************************************************************)
(* tests/parser_valid/loops.ipl is a valid program: analysing it comes to  *)
(* an end without undefined behaviour.                                     *)
(***************************************************************************)
AnalysisIsDefined == status # "crashed"
=============================================================================
