----------------------------- MODULE MCGenerator -----------------------------
(***************************************************************************)
(* Programs of one function that returns one of the values below or whose  *)
(* body is one or two of the statements, the rule files that are shipped,  *)
(* and one with a section of each irregular form.                          *)
(***************************************************************************)
EXTENDS GeneratedText, Trees

CONSTANTS MaxStatements

Literal(value) == Node("literal", value, NoType, <<>>)

MCLanguage == {"c", "cpp", "Java", "Python", "C#", "javascript", "rust", "odd"}

Blank            == [kind |-> "blank"]
Section(type)    == [kind |-> "header", type |-> type]
Has1(key, value) == [kind |-> "entry", key |-> key, hasValue |-> TRUE, value |-> value]
Template(pieces) == Has1("template", pieces)
NoMappings       == Has1("mappings", <<>>)

\* What the two files have in common.
Shipped ==
  << Section("Assignment"),
     Template(<<"{{VARIABLE}}", Space, "=", Space, "{{VALUE}}", ";">>), NoMappings, Blank,
     Section("BinaryOperation"),
     Template(<<"{{LEFT}}", Space, "{{OPERATOR}}", Space, "{{RIGHT}}">>), NoMappings, Blank,
     Section("UnaryOperation"), Template(<<"{{OPERATOR}}", "{{OPERAND}}">>), NoMappings, Blank,
     Section("CallExpression"), Template(<<"{{CALLEE}}", "(", "{{ARGS}}", ")">>),
     NoMappings, Blank,
     Section("Literal"), Template(<<"{{VALUE}}">>), NoMappings, Blank,
     Section("Block"), Template(<<"{{BODY}}">>), NoMappings, Blank,
     Section("Return"), Template(<<"return", Space, "{{VALUE}}", ";">>), NoMappings, Blank >>

\* rules/javascript.rules
JavaScript ==
  << Blank, Section("Program"), Template(<<"{{PROLOGUE}}", "{{BODY}}", "{{EPILOGUE}}">>),
     NoMappings, Blank,
     Section("Function"),
     Template(<<"function", Space, "{{NAME}}", "(", "{{PARAMS}}", ")", Space, "{{BODY}}">>),
     NoMappings, Blank,
     Section("VariableDeclaration"),
     Template(<<"let", Space, "{{NAME}}", Space, "=", Space, "{{INIT_VALUE}}", ";">>),
     Has1("mappings", << <<"int", "number">>, <<"bool", "boolean">> >>), Blank >>
  \o Shipped \o
  << Section("If"),
     Template(<<"if", Space, "(", "{{CONDITION}}", ")", Space, "{{THEN_BRANCH}}", Space,
                "else", Space, "{{ELSE_BRANCH}}">>), NoMappings, Blank,
     Section("While"),
     Template(<<"while", Space, "(", "{{CONDITION}}", ")", Space, "{{BODY}}">>),
     NoMappings, Blank,
     Section("For"),
     Template(<<"for", Space, "(", "{{INIT}}", ";", Space, "{{CONDITION}}", ";", Space,
                "{{INCREMENT}}", ")", Space, "{{BODY}}">>), NoMappings >>

\* rules/rust.rules
Rust ==
  << Blank, Section("Program"), Template(<<"fn", Space, "main", "(", ")", Space, "{{BODY}}">>),
     NoMappings, Blank,
     Section("Function"),
     Template(<<"fn", Space, "{{NAME}}", "(", "{{PARAMS}}", ")", Space, "->", Space,
                "{{RETURN_TYPE}}", Space, "{{BODY}}">>),
     Has1("mappings", << <<"int", "i32">>, <<"void", "()">> >>), Blank,
     Section("VariableDeclaration"),
     Template(<<"let", Space, "{{NAME}}", ":", Space, "{{TYPE}}", Space, "=", Space,
                "{{INIT_VALUE}}", ";">>),
     Has1("mappings", << <<"int", "i32">>, <<"int", "i64">> >>), Blank >>
  \o Shipped \o
  << Section("If"),
     Template(<<"if", Space, "{{CONDITION}}", Space, "{{THEN_BRANCH}}", Space, "else", Space,
                "{{ELSE_BRANCH}}">>), NoMappings, Blank,
     Section("While"), Template(<<"while", Space, "{{CONDITION}}", Space, "{{BODY}}">>),
     NoMappings, Blank,
     Section("For"),
     Template(<<"for", Space, "{{INIT}}", ";", Space, "{{CONDITION}}", ";", Space,
                "{{INCREMENT}}", Space, "{{BODY}}">>), NoMappings >>

\* Entries before the first section, a section twice, a template twice, a
\* section without a template, and placeholders that a template has twice.
Odd ==
  << Template(<<"lost">>), Has1("note", <<"ignored">>),
     Section("Return"), Template(<<"return", Space, "{{VALUE}}", ";">>),
     Section("BinaryOperation"), Template(<<"add", "(", "{{LEFT}}", ")">>),
     Section("Literal"),
     Section("If"), Template(<<"if", "{{CONDITION}}">>),
     Template(<<"{{CONDITION}}", "?", "{{THEN_BRANCH}}", ":", "!", "{{CONDITION}}", "?",
                "{{ELSE_BRANCH}}">>),
     [kind |-> "entry", key |-> "template", hasValue |-> FALSE],
     Section("BinaryOperation"),
     Template(<<"{{OPERATOR}}", "(", "{{LEFT}}", ",", "{{RIGHT}}", ",", "{{LEFT}}", ")">>) >>

\* The file for C is never read: C has a generator of its own.
MCRuleFiles == "javascript" :> JavaScript @@ "rust" :> Rust @@ "odd" :> Odd @@ "c" :> Odd

X == Id("x")
Y == Id("y")
One == Literal("1")

\* Two operators in each grouping, with one of each level and a sign.
Signs == {"or", "||", "&&", "!=", "<", "-", "*"}

Grouped == UNION {{Binary(a, Binary(b, X, Y), One), Binary(a, X, Binary(b, Y, One))} :
                    a \in Signs, b \in Signs}

Values1 ==
  Grouped \cup
  { One, X, Not(Binary("==", X, Y)), Binary("&&", Not(X), Not(Y)),
    Unary("-", Unary("-", X)), Unary("-", Unary("+", X)), Not(Not(X)),
    Binary("-", X, Unary("-", One)), Unary("-", Call("f", <<Binary("+", X, One), Y>>)),
    Call("f", <<Assign("x", One)>>), Assign("y", X),
    Binary("+", Literal("{{RIGHT}}"), Y), Call("f", <<Literal("{{BODY}}")>>) }

Less == Binary("<", X, One)
Step == Assign("x", Binary("+", X, One))

Statements1 ==
  { Let("int", "y", One), Let("string", "x", NoTree), Let("bool", "x", Less),
    Let(NoType, "y", One), Let("matrix", "y", One), Let("String", "y", X),
    Step, Expression(Call("f", <<>>)), Expression(Assign("x", One)), Return(NoTree),
    Block(<<>>), Block(<<Let("int", "x", One)>>), Block(<<Step, Return(X)>>),
    If(Less, Step, Return(X)), If(Less, Block(<<Step>>), NoTree),
    If(Less, Block(<<If(X, Block(<<Step>>), NoTree), Step>>), NoTree),
    If(Less, If(X, Step, Return(Y)), Block(<<Step>>)),
    If(Less, Block(<<If(X, Step, NoTree)>>), Block(<<Return(Y)>>)),
    While(Less, Step), While(Less, While(X, Step)), While(X, Let("int", "y", One)),
    While(Less, Block(<<If(X, Block(<<Step, Step>>), NoTree)>>)),
    While(Less, Block(<<>>)), While(Less, Return(Literal("{{BODY}}"))),
    For(Let("int", "x", One), Less, Step, Block(<<Step>>)),
    For(Expression(Assign("x", One)), Less, NoTree, Step),
    For(Let("int", "x", One), NoTree, Call("f", <<X>>), Block(<<Step>>)),
    For(NoTree, Less, Call("f", <<X>>), Block(<<Step>>)),
    For(NoTree, NoTree, Step, Step), For(Expression(X), NoTree, NoTree, Step) }

\* What may stand behind another statement.
Statements2 ==
  { Step, If(Less, Block(<<Step>>), NoTree), While(Less, Return(One)), Block(<<Step>>) }

Bodies == {<<>>} \cup {<<s>> : s \in Statements1}
            \cup IF MaxStatements = 2 THEN Statements1 \X Statements2 ELSE {}

MCPrograms ==
  {Program(<<Function("void", "g", <<>>, body)>>) : body \in Bodies}
    \cup {Program(<<Function("int", "g", <<Parameter("bool", "x")>>, <<Return(value)>>)>>) :
            value \in Values1}
    \cup {Program(<<Function("char", "g", <<>>, <<Step>>),
                    Function("int", "f", <<Parameter("int", "x"), Parameter("string", "y")>>,
                             <<Return(X)>>)>>),
          Program(<<Function("int", "g", <<Parameter("matrix", "x")>>, <<Step>>)>>),
          Program(<<>>)}
=============================================================================
