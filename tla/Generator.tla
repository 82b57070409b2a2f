------------------------------ MODULE Generator ------------------------------
(***************************************************************************)
(* The code generators of src/codegen that print an AST in the syntax of   *)
(* C: GenericCodeGenerator with its rules and default formats, and the C   *)
(* and C++ generators, which use the same formats and types of their own;  *)
(* what Java has in another form is in JavaGenerator.                      *)
(*                                                                         *)
(* A text is a sequence of pieces: words, signs, and layout, which is kept *)
(* where it keeps pieces apart.  A node is printed when its children are:  *)
(* an action stands for the return of one generate function.               *)
(***************************************************************************)
EXTENDS RuleFile

CONSTANTS Programs   \* the ASTs that are printed; a literal is one piece, a
                     \* placeholder when it is a string that holds one

ASSUME GeneratorAssumption == DOMAIN RuleFiles \subseteq Language

NoType == "no type"   \* an empty type name

-----------------------------------------------------------------------------
(* What is a placeholder *)

Hole == [ prologue |-> "{{PROLOGUE}}", epilogue |-> "{{EPILOGUE}}", body |-> "{{BODY}}",
          name |-> "{{NAME}}", returnType |-> "{{RETURN_TYPE}}", params |-> "{{PARAMS}}",
          type |-> "{{TYPE}}", initValue |-> "{{INIT_VALUE}}",
          variable |-> "{{VARIABLE}}", value |-> "{{VALUE}}", left |-> "{{LEFT}}",
          right |-> "{{RIGHT}}", operator |-> "{{OPERATOR}}", operand |-> "{{OPERAND}}",
          callee |-> "{{CALLEE}}", args |-> "{{ARGS}}", condition |-> "{{CONDITION}}",
          thenBranch |-> "{{THEN_BRANCH}}", elseBranch |-> "{{ELSE_BRANCH}}",
          init |-> "{{INIT}}", increment |-> "{{INCREMENT}}" ]

Placeholder == {Hole[which] : which \in DOMAIN Hole}

\* The placeholders that the handler of a node type fills.
Filled ==
  [ Program             |-> {Hole.prologue, Hole.body, Hole.epilogue},
    Function            |-> {Hole.name, Hole.returnType, Hole.params, Hole.body},
    VariableDeclaration |-> {Hole.type, Hole.name, Hole.initValue},
    Assignment          |-> {Hole.variable, Hole.value},
    BinaryOperation     |-> {Hole.left, Hole.operator, Hole.right},
    UnaryOperation      |-> {Hole.operator, Hole.operand},
    CallExpression      |-> {Hole.callee, Hole.args},
    Literal             |-> {Hole.value},
    Block               |-> {Hole.body},
    Return              |-> {Hole.value},
    If                  |-> {Hole.condition, Hole.thenBranch, Hole.elseBranch},
    While               |-> {Hole.condition, Hole.body},
    For                 |-> {Hole.init, Hole.condition, Hole.increment, Hole.body} ]

\* No name and no type in a program is a placeholder: the lexer ends a name at
\* a brace.  The parameters are in the first slots of a function.
ASSUME ProgramsAssumption ==
  \A tree \in Programs :
    /\ DOMAIN tree \subseteq Seq(Nat)
    /\ \A p \in DOMAIN tree :
         /\ tree[p].arity \in Nat /\ tree[p].type \notin Placeholder
         /\ tree[p].kind # "literal" => tree[p].name \notin Placeholder
         /\ tree[p].kind = "function" =>
              \A i \in 1 .. tree[p].arity - 1 :
                /\ Append(p, i) \in DOMAIN tree
                /\ tree[Append(p, i)].kind = "parameter"
         /\ tree[p].kind = "parameter" =>
              /\ p # <<>> /\ tree[Front(p)].kind = "function"
              /\ Last(p) < tree[Front(p)].arity

\* A template has no placeholders but those of its node type, and a mapping
\* none at all.
ASSUME TemplatesAssumption ==
  \A word \in DOMAIN RuleFiles :
    LET file == RuleFiles[word] IN
    \A n \in {m \in DOMAIN file : file[m].kind = "entry" /\ file[m].hasValue} :
      LET value == file[n].value IN
      /\ value \in Seq(Range(value))
      /\ \A h \in 1 .. n - 1 :
           /\ Begins(file[n], 8, "template")
           /\ file[h].kind = "header" /\ file[h].type \in DOMAIN Filled
           /\ \A m \in h + 1 .. n : file[m].kind # "header"
           => Range(value) \cap Placeholder \subseteq Filled[file[h].type]
      /\ \A length \in {7, 8} :
           Begins(file[n], length, "mappings") =>
             \A pair \in Range(value) : pair[2] \notin Placeholder

VARIABLES
  ast,
  text    \* what has been generated, a function from the nodes printed

vars == <<fileVars, ast, text>>

Space == " "
NewLine == "\n"
Tab == "    "

Layout == {Space, NewLine, Tab}

Generator == GeneratorFor(language)

-----------------------------------------------------------------------------
(* Which node is next *)

\* Parameters are printed with their function.
Printed == {p \in DOMAIN ast : ast[p].kind # "parameter"}

\* A node is printed after its children and the children after each other;
\* no handler has an effect on another.
Precedes(q, p) ==
  \/ Len(p) < Len(q) /\ SubSeq(q, 1, Len(p)) = p
  \/ \E n \in 1 .. Len(p) : /\ n <= Len(q) /\ q[n] < p[n]
                            /\ SubSeq(q, 1, n - 1) = SubSeq(p, 1, n - 1)

Due(kind) ==
  {p \in Printed \ DOMAIN text :
     /\ reading = "loaded" /\ ast[p].kind = kind
     /\ \A q \in Printed : Precedes(q, p) => q \in DOMAIN text}

Has(p, slot) == Append(p, slot) \in DOMAIN ast

\* What generate() has returned for a child, nothing for one that is null.
Part(p, slot) == IF Has(p, slot) THEN text[Append(p, slot)] ELSE <<>>

\* The parts in the slots from .. to, each with what is put around it.
Parts(p, from, to, before, after) ==
  FlattenSeq([n \in 1 .. to - from + 1 |-> before \o Part(p, from + n - 1) \o after])

\* Items with ", " between them.
Listed(items) ==
  FlattenSeq([n \in DOMAIN items |->
                (IF n > 1 THEN <<",", Space>> ELSE <<>>) \o items[n]])

-----------------------------------------------------------------------------
(* Templates *)

\* Mutant: find() is called once for each placeholder.
ReplaceFirst(pieces, placeholder, value) ==
  LET at == {n \in DOMAIN pieces : pieces[n] = placeholder}
      first == CHOOSE n \in at : \A m \in at : n <= m
  IN  IF at = {} THEN pieces
      ELSE SubSeq(pieces, 1, first - 1) \o value
             \o SubSeq(pieces, first + 1, Len(pieces))

\* One turn of the loop: the search goes on behind the value put in.
Replace(pieces, placeholder, value) ==
  FlattenSeq([n \in DOMAIN pieces |->
                IF pieces[n] = placeholder THEN value ELSE <<pieces[n]>>])

\* applyTemplate: one turn for each placeholder ...
Applied(template, values, order) ==
  LET turns[n \in 0 .. Len(order)] ==
        IF n = 0 THEN template
        ELSE Replace(turns[n - 1], order[n], values[order[n]])
  IN  turns[Len(order)]

\* ... in the order of an unordered_map.
ApplyTemplate(template, values) ==
  {Applied(template, values, order) : order \in SetToSeqs(DOMAIN values)}

-----------------------------------------------------------------------------
(* Types *)

Plain == {"int", "float", "double"}

\* bool and string are int and char* in C; other types are int, but verbatim
\* as the type of a parameter.  char* is no name of a type in IPL.
CType(use, type) ==
  CASE type = "bool" -> "int"
    [] type = "string" -> "char*"
    [] type \in Plain -> type
    [] type = "void" /\ use = "return" -> type
    [] type \notin Plain \cup {"bool", "string"} /\ use = "parameter" -> type
    [] OTHER -> "int"

CppType(use, type) ==
  IF \/ type \in Plain \cup {"bool", "string"}
     \/ type = "void" /\ use = "return"
     \/ use = "parameter"
  THEN type ELSE "int"

JavaType(use, type) ==
  CASE type = "bool" -> "boolean"
    [] type \in {"string", "String"} -> "String"
    [] type \in Plain -> type
    [] type = "void" /\ use = "return" -> type
    [] OTHER -> "int"

\* mapType looks in the section TypeMapping only.
MapType(type) ==
  IF "TypeMapping" \in DOMAIN rules /\ type \in DOMAIN rules["TypeMapping"].mappings
  THEN rules["TypeMapping"].mappings[type] ELSE type

\* The pieces of a type: an empty name is no piece.
Type(use, type) ==
  LET name == CASE Generator = "C" -> CType(use, type)
                [] Generator = "C++" -> CppType(use, type)
                [] Generator = "Java" -> JavaType(use, type)
                [] OTHER -> MapType(type)
  IN  IF name = NoType THEN <<>> ELSE <<name>>

-----------------------------------------------------------------------------
(* What the placeholders of a template stand for *)

Params(p) ==
  Listed([n \in 1 .. ast[p].arity - 1 |->
            LET parameter == ast[Append(p, n)]
            IN  Type("parameter", parameter.type) \o <<Space, parameter.name>>])

Args(p) == Listed([n \in 1 .. ast[p].arity - 1 |-> Part(p, n + 1)])

\* What a handler lists before it calls applyTemplate; the prologue is a comment.
Replacements(p) ==
  LET node == ast[p] IN
  CASE node.kind = "program" ->
         << <<Hole.prologue, <<NewLine>> >>,
            <<Hole.body, Parts(p, 1, node.arity, <<>>, <<NewLine>>)>>,
            <<Hole.epilogue, <<>> >> >>
    [] node.kind = "function" ->
         << <<Hole.name, <<node.name>> >>, <<Hole.returnType, Type("return", node.type)>>,
            <<Hole.params, Params(p)>>, <<Hole.body, Part(p, node.arity)>> >>
    [] node.kind = "declaration" ->
         << <<Hole.type, Type("variable", node.type)>>, <<Hole.name, <<node.name>> >>,
            <<Hole.initValue, Part(p, 1)>> >>
    [] node.kind = "assignment" ->
         << <<Hole.variable, <<node.name>> >>, <<Hole.value, Part(p, 1)>> >>
    [] node.kind = "binary" ->
         << <<Hole.left, Part(p, 1)>>, <<Hole.operator, <<node.name>> >>,
            <<Hole.right, Part(p, 2)>> >>
    [] node.kind = "unary" ->
         << <<Hole.operator, <<node.name>> >>, <<Hole.operand, Part(p, 1)>> >>
    [] node.kind = "call" -> << <<Hole.callee, Part(p, 1)>>, <<Hole.args, Args(p)>> >>
    [] node.kind = "literal" -> << <<Hole.value, <<node.name>> >> >>
    [] node.kind = "block" ->
         << <<Hole.body, Parts(p, 1, node.arity, <<>>, <<NewLine>>)>> >>
    [] node.kind = "return" -> << <<Hole.value, Part(p, 1)>> >>
    [] node.kind = "if" ->
         << <<Hole.condition, Part(p, 1)>>, <<Hole.thenBranch, Part(p, 2)>>,
            <<Hole.elseBranch, Part(p, 3)>> >>
    [] node.kind = "while" ->
         << <<Hole.condition, Part(p, 1)>>, <<Hole.body, Part(p, 2)>> >>
    [] node.kind = "for" ->
         << <<Hole.init, Part(p, 1)>>, <<Hole.condition, Part(p, 2)>>,
            <<Hole.increment, Part(p, 3)>>, <<Hole.body, Part(p, 4)>> >>

Values(p) == Mappings(Replacements(p))

-----------------------------------------------------------------------------
(* One action for each generate function: it prints by the rule for its    *)
(* node type, or by default.                                               *)

ByRule(type, p, default) ==
  IF type \in DOMAIN rules THEN ApplyTemplate(rules[type].template, Values(p))
  ELSE {default}

Emit(p, texts) ==
  /\ \E pieces \in texts :
       text' = [q \in DOMAIN text \cup {p} |-> IF q = p THEN pieces ELSE text[q]]
  /\ UNCHANGED <<fileVars, ast>>

\* The headers of C and C++ are left out.
GenerateProgram ==
  \E p \in Due("program") :
    Emit(p, ByRule("Program", p,
      <<NewLine>> \o Parts(p, 1, ast[p].arity, <<>>, <<NewLine>>)))

Signature(p) ==
  Type("return", ast[p].type) \o <<Space, ast[p].name, "(">> \o Params(p) \o <<")">>

\* The parser gives every function a body.
GenerateFunction ==
  \E p \in Due("function") :
    Emit(p, ByRule("Function", p,
      Signature(p) \o <<NewLine>> \o Part(p, ast[p].arity)))

GenerateVariableDeclaration ==
  \E p \in Due("declaration") :
    Emit(p, ByRule("VariableDeclaration", p,
      Type("variable", ast[p].type) \o <<Space, ast[p].name>>
        \o (IF Has(p, 1) THEN <<Space, "=", Space>> \o Part(p, 1) ELSE <<>>)
        \o <<";">>))

GenerateAssignment ==
  \E p \in Due("assignment") :
    Emit(p, ByRule("Assignment", p,
      <<ast[p].name, Space, "=", Space>> \o Part(p, 1) \o <<";">>))

\* Mutant: the precedence of the parser is trusted to come back.
GenerateBareOperation ==
  \E p \in Due("binary") :
    Emit(p, ByRule("BinaryOperation", p,
      Part(p, 1) \o <<Space, ast[p].name, Space>> \o Part(p, 2)))

GenerateBinaryOperation ==
  \E p \in Due("binary") :
    Emit(p, ByRule("BinaryOperation", p,
      <<"(">> \o Part(p, 1) \o <<Space, ast[p].name, Space>> \o Part(p, 2) \o <<")">>))

\* Mutant: no rule is looked for, as in generateExpressionStatement.
GenerateUnaryByDefault ==
  \E p \in Due("unary") : Emit(p, {<<ast[p].name, "(">> \o Part(p, 1) \o <<")">>})

GenerateUnaryOperation ==
  \E p \in Due("unary") :
    Emit(p, ByRule("UnaryOperation", p,
      <<ast[p].name, "(">> \o Part(p, 1) \o <<")">>))

GenerateCallExpression ==
  \E p \in Due("call") :
    Emit(p, ByRule("CallExpression", p, Part(p, 1) \o <<"(">> \o Args(p) \o <<")">>))

GenerateLiteral ==
  \E p \in Due("literal") : Emit(p, ByRule("Literal", p, <<ast[p].name>>))

GenerateIdentifier == \E p \in Due("identifier") : Emit(p, {<<ast[p].name>>})

GenerateBlock ==
  \E p \in Due("block") :
    Emit(p, ByRule("Block", p,
      <<Space, "{", NewLine>> \o Parts(p, 1, ast[p].arity, <<Tab>>, <<NewLine>>)
        \o <<"}">>))

GenerateReturn ==
  \E p \in Due("return") :
    Emit(p, ByRule("Return", p,
      <<"return">> \o (IF Has(p, 1) THEN <<Space>> \o Part(p, 1) ELSE <<>>) \o <<";">>))

\* No rule is looked for.
GenerateExpressionStatement ==
  \E p \in Due("expression") : Emit(p, {Part(p, 1) \o <<";">>})

GenerateIf ==
  \E p \in Due("if") :
    Emit(p, ByRule("If", p,
      <<"if", Space, "(">> \o Part(p, 1) \o <<")", Space>> \o Part(p, 2)
        \o (IF Has(p, 3) THEN <<Space, "else", Space>> \o Part(p, 3) ELSE <<>>)))

GenerateWhile ==
  \E p \in Due("while") :
    Emit(p, ByRule("While", p,
      <<"while", Space, "(">> \o Part(p, 1) \o <<")", Space>> \o Part(p, 2)))

\* The first two parts of the header of a loop, with what is put behind each.
ForHeader(p, after) ==
  (IF Has(p, 1) THEN Part(p, 1) \o after ELSE <<";", Space>>)
    \o (IF Has(p, 2) THEN Part(p, 2) \o after ELSE <<";", Space>>)

GenerateFor ==
  \E p \in Due("for") :
    Emit(p, ByRule("For", p,
      <<"for", Space, "(">> \o ForHeader(p, <<Space>>) \o Part(p, 3)
        \o <<")", Space>> \o Part(p, 4)))

\* The handlers that print the same in Java.
SameInJava ==
  \/ GenerateVariableDeclaration \/ GenerateAssignment \/ GenerateBinaryOperation
  \/ GenerateUnaryOperation \/ GenerateCallExpression \/ GenerateLiteral
  \/ GenerateIdentifier \/ GenerateReturn \/ GenerateExpressionStatement
  \/ GenerateIf \/ GenerateWhile

Generate ==
  SameInJava \/ GenerateProgram \/ GenerateFunction \/ GenerateBlock \/ GenerateFor

-----------------------------------------------------------------------------
Init == FileInit /\ ast \in Programs /\ text = <<>>

ReadRules == FileNext /\ UNCHANGED <<ast, text>>

Done == Printed \subseteq DOMAIN text

Terminated == Done /\ UNCHANGED vars

-----------------------------------------------------------------------------
(* Correctness *)

TypeOK ==
  /\ language \in Language
  /\ reading \in {"start", "lines", "loaded"}
  /\ DOMAIN text \subseteq Printed
  /\ text # <<>> => reading = "loaded"
  /\ rules # NoRules => Generator = "generic"

RuleType == [program |-> "Program", function |-> "Function",
             declaration |-> "VariableDeclaration", assignment |-> "Assignment",
             binary |-> "BinaryOperation", unary |-> "UnaryOperation",
             call |-> "CallExpression", literal |-> "Literal", block |-> "Block",
             return |-> "Return", if |-> "If", while |-> "While", for |-> "For"]

\* The literals that p is printed from.
LiteralsOf(p) ==
  {ast[q].name : q \in {r \in DOMAIN ast : /\ ast[r].kind = "literal"
                                          /\ Len(p) <= Len(r)
                                          /\ SubSeq(r, 1, Len(p)) = p}}

(***************************************************************************)
(* The order of the replacements makes no difference: what is printed by a *)
(* rule is its template with all the placeholders replaced at once, at     *)
(* every place the template has them, unless a literal below the node      *)
(* holds one of these placeholders.                                        *)
(***************************************************************************)
SubstitutionIsSimultaneous ==
  \A p \in {q \in DOMAIN text : ast[q].kind \in DOMAIN RuleType} :
    LET type == RuleType[ast[p].kind] IN
    type \in DOMAIN rules /\ LiteralsOf(p) \cap DOMAIN Values(p) = {} =>
      text[p] = FlattenSeq([n \in DOMAIN rules[type].template |->
                  LET piece == rules[type].template[n] IN
                  IF piece \in DOMAIN Values(p) THEN Values(p)[piece] ELSE <<piece>>])
=============================================================================
