------------------------- MODULE MCSemanticAnalyzer -------------------------
(***************************************************************************)
(* Programs of one or two functions whose bodies are short sequences of    *)
(* the statements below, and a program of the repository's tests.          *)
(***************************************************************************)
EXTENDS SymbolIndex, Trees

CONSTANTS MaxStatements   \* the length of the first function's body

MCName == {"f", "g", "x", "y"}

Literal(type) == Node("literal", "", type, <<>>)

One  == Literal("int")
True == Literal("bool")

Statements ==
  { Let("int", "x", One), Let("matrix", "y", NoTree), Let(NoType, "y", One),
    Let("float", "x", Id("x")),
    Assign("x", Binary("+", Id("x"), Id("y"))),
    Assign("y", True),
    Expression(Id("y")),
    Expression(Call("g", <<Not(Assign("y", Id("x")))>>)),
    Let("int", "g", Assign("y", One)),
    Expression(Binary("<", Id("x"), Call("f", <<>>))),
    Return(NoTree), Return(Id("y")),
    Block(<<Let("int", "y", Id("x")), Assign("x", Id("y"))>>),
    If(Binary("<", Id("x"), One), Block(<<Let("bool", "x", True)>>), Return(Id("x"))),
    If(True, Block(<<Let("bool", "x", True)>>), Block(<<Let("int", "g", One)>>)),
    While(Id("y"), Assign("y", One)),
    For(Let("float", "y", Id("x")), True, Assign("y", Id("x")),
        Block(<<Assign("x", Id("y"))>>)) }

Bodies == UNION {[1 .. n -> Statements] : n \in 0 .. MaxStatements}

Seconds ==
  { <<>>,
    <<Function("void", "g", <<>>, <<Assign("x", One)>>)>>,
    <<Function("void", "g", <<Parameter("int", "y")>>, <<Assign("y", One)>>)>>,
    <<Function("int", "g", <<Parameter("matrix", "y"), Parameter("int", "y")>>,
               <<Expression(Call("f", <<>>))>>)>>,
    <<Function("int", "g", <<>>, <<Expression(Call("f", <<>>))>>)>>,
    <<Function("tuple", "f", <<>>, <<>>)>> }

MCPrograms ==
  {Program(<<Function("int", "f", <<Parameter("float", "x")>>, body)>> \o second) :
     body \in Bodies, second \in Seconds}

\* tests/parser_valid/loops.ipl
Loops ==
  LET total == Id("total")
      limit == Id("limit")
      i     == Id("i")
  IN Program(<<Function("int", "sum_to", <<Parameter("int", "limit")>>,
       << Let("int", "total", One),
          For(Let(NoType, "i", One), Binary("<", i, limit),
              Assign("i", Binary("+", i, One)),
              Block(<<Assign("total", Binary("+", total, i))>>)),
          While(Binary(">", limit, One),
                Block(<<Assign("limit", Binary("-", limit, One))>>)),
          Return(total) >>)>>)

LoopsName == {"sum_to", "limit", "total", "i"}

LoopsProgram == {Loops}
=============================================================================
