--------------------------- MODULE PythonGenerator ---------------------------
(***************************************************************************)
(* PythonCodeGenerator of src/codegen, which prints blocks by indentation: *)
(* the text of a block starts with a line break and has its statements one *)
(* step in, and whoever holds the block moves all of it one step further.  *)
(* Of a comment its sign is kept.                                          *)
(***************************************************************************)
EXTENDS JavaGenerator

Comment == "#"

\* The loop over find("\n") that inserts four spaces behind each line break,
\* but not at the end of the text.
Indent(pieces) ==
  FlattenSeq([n \in DOMAIN pieces |->
                IF pieces[n] = NewLine /\ n < Len(pieces) THEN <<NewLine, Tab>>
                ELSE <<pieces[n]>>])

\* The loop in generateFunction, which does not look for the end.
IndentToTheEnd(pieces) ==
  FlattenSeq([n \in DOMAIN pieces |->
                IF pieces[n] = NewLine THEN <<NewLine, Tab>> ELSE <<pieces[n]>>])

PythonProgram ==
  \E p \in Due("program") :
    Emit(p, {<<Comment, NewLine, NewLine>>
               \o Parts(p, 1, ast[p].arity, <<>>, <<NewLine, NewLine>>)})

PythonFunction ==
  \E p \in Due("function") :
    Emit(p, {<<"def", Space, ast[p].name, "(">>
               \o Listed([n \in 1 .. ast[p].arity - 1 |-> <<ast[Append(p, n)].name>>])
               \o <<")", ":">> \o IndentToTheEnd(Part(p, ast[p].arity))})

PythonVariableDeclaration ==
  \E p \in Due("declaration") :
    Emit(p, {<<ast[p].name, Space, "=", Space>>
               \o (IF Has(p, 1) THEN Part(p, 1) ELSE <<"None">>)})

PythonAssignment ==
  \E p \in Due("assignment") :
    Emit(p, {<<ast[p].name, Space, "=", Space>> \o Part(p, 1)})

PythonUnaryOperation ==
  \E p \in Due("unary") : Emit(p, {<<ast[p].name>> \o Part(p, 1)})

PythonBlock ==
  \E p \in Due("block") :
    Emit(p, {<<NewLine>> \o Parts(p, 1, ast[p].arity, <<Tab>>, <<NewLine>>)})

PythonReturn ==
  \E p \in Due("return") :
    Emit(p, {<<"return">> \o (IF Has(p, 1) THEN <<Space>> \o Part(p, 1) ELSE <<>>)})

PythonExpressionStatement == \E p \in Due("expression") : Emit(p, {Part(p, 1)})

\* Mutant: the branch is left where the block has put it.
PythonIfUnindented ==
  \E p \in Due("if") :
    Emit(p, {<<"if", Space>> \o Part(p, 1) \o <<":">> \o Part(p, 2)
               \o (IF Has(p, 3) THEN <<NewLine, "else", ":">> \o Indent(Part(p, 3))
                   ELSE <<>>)})

PythonIf ==
  \E p \in Due("if") :
    Emit(p, {<<"if", Space>> \o Part(p, 1) \o <<":">> \o Indent(Part(p, 2))
               \o (IF Has(p, 3) THEN <<NewLine, "else", ":">> \o Indent(Part(p, 3))
                   ELSE <<>>)})

PythonWhile ==
  \E p \in Due("while") :
    Emit(p, {<<"while", Space>> \o Part(p, 1) \o <<":">> \o Indent(Part(p, 2))})

\* A header of three parts becomes a loop over a range that is always the same.
PythonFor ==
  \E p \in Due("for") :
    Emit(p, {IF Has(p, 1) /\ Has(p, 2) /\ Has(p, 3)
             THEN <<Comment, NewLine, "for", Space, "i", Space, "in", Space, "range", "(", "0",
                    ",", Space, "10", ")", ":", Comment>> \o Indent(Part(p, 4))
             ELSE <<NewLine, Comment, NewLine>>
                    \o (IF Has(p, 1) THEN Part(p, 1) \o <<NewLine>> ELSE <<>>)
                    \o <<"while", Space>> \o Part(p, 2) \o <<":">> \o Indent(Part(p, 4))
                    \o (IF Has(p, 3) THEN <<NewLine, Tab>> \o Part(p, 3) ELSE <<>>)})

\* Without rules these handlers print the same.
SameAsDefault ==
  \/ GenerateBinaryOperation \/ GenerateCallExpression \/ GenerateLiteral
  \/ GenerateIdentifier

PythonGenerate ==
  \/ SameAsDefault
  \/ PythonProgram \/ PythonFunction \/ PythonVariableDeclaration
  \/ PythonAssignment \/ PythonUnaryOperation \/ PythonBlock \/ PythonReturn
  \/ PythonExpressionStatement \/ PythonIf \/ PythonWhile \/ PythonFor

-----------------------------------------------------------------------------
Next ==
  \/ ReadRules
  \/ Generator \in {"C", "C++", "generic"} /\ Generate
  \/ Generator = "Java" /\ JavaGenerate
  \/ Generator = "Python" /\ PythonGenerate
  \/ Terminated

Spec == Init /\ [][Next]_vars
=============================================================================
