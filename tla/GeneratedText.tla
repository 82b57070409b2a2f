---------------------------- MODULE GeneratedText ----------------------------
(***************************************************************************)
(* What the generated texts say to whoever reads them: a reader of the     *)
(* statements and expressions of C, C++, C#, Java and JavaScript and of    *)
(* the expressions of Rust, a reader of Python's indentation, and the      *)
(* comparison of what they find with the AST the text was made from.       *)
(***************************************************************************)
EXTENDS PythonGenerator

-----------------------------------------------------------------------------
(* Trees as they are compared: <<kind, name, type, children>>, a null child *)
(* is <<>>.                                                                 *)

Null == <<>>
Tree(kind, name, type, children) == <<kind, name, type, children>>

Fail == [tree |-> Null, at |-> 0]
Found(tree, at) == [tree |-> tree, at |-> at]

\* What is found behind a part, if the part is.
Then(part, More(_)) == IF part.at = 0 THEN Fail ELSE More(part)

Sign(s, i) == IF i \in DOMAIN s THEN s[i] ELSE "end"

Begin(s, i, words) ==
  i + Len(words) <= Len(s) + 1 /\ SubSeq(s, i, i + Len(words) - 1) = words

\* A part that has to be followed by a sign.
Closed(s, part, sign) ==
  Then(part, LAMBDA p : IF Sign(s, p.at) = sign THEN Found(p.tree, p.at + 1) ELSE Fail)

\* A node that has one part.
Around(part, kind, name) ==
  Then(part, LAMBDA p : Found(Tree(kind, name, NoType, <<p.tree>>), p.at))

\* The rules that are shipped print operands and blocks bare.
Bare ==
  /\ "BinaryOperation" \in DOMAIN rules
  /\ rules["BinaryOperation"].template
       = <<"{{LEFT}}", Space, "{{OPERATOR}}", Space, "{{RIGHT}}">>

-----------------------------------------------------------------------------
(* The operators of the target languages, by how loosely they bind.  A     *)
(* language with neither a generator nor rules of its own is taken for C#. *)

\* Python and Rust do not have the expressions of C: comparisons have one
\* level and are not grouped (x < y < z is a conjunction in Python and an
\* error in Rust), and there are no "++" and "--".
LikeC == Generator # "Python" /\ language # "rust"

Comparisons == {"==", "!=", "<", "<=", ">", ">="}

Levels ==
  (CASE Generator = "C++"    -> << {"or", "||"}, {"and", "&&"} >>
     [] Generator = "Python" -> << {"or"}, {"and"} >>
     [] OTHER                -> << {"||"}, {"&&"} >>)
  \o (IF LikeC THEN << {"==", "!="}, {"<", "<=", ">", ">="} >> ELSE << Comparisons >>)
  \o << {"+", "-"}, {"*", "/", "%"} >>

Operators == UNION Range(Levels)

UnarySigns == CASE Generator = "Python" -> {"-", "+"}
                [] language = "rust"    -> {"!", "-"}
                [] OTHER                -> {"!", "-", "+"}

\* An operator whose result may be an operand of its own level.
Groups(sign) == LikeC \/ sign \notin Comparisons

-----------------------------------------------------------------------------
(* Tokens: layout goes, and signs with nothing between them are one.       *)

Twice == [sign \in IF LikeC THEN {"+", "-"} ELSE {} |-> IF sign = "+" THEN "++" ELSE "--"]

Tokens(pieces) ==
  LET same(n, m) == /\ {n, m} \subseteq DOMAIN pieces
                    /\ pieces[n] \in DOMAIN Twice /\ pieces[m] = pieces[n]
      before(n) == CHOOSE k \in 0 .. n - 1 : /\ \A m \in n - k .. n - 1 : same(n, m)
                                            /\ ~same(n, n - k - 1)
      token(n) == CASE before(n) % 2 = 1 -> Space
                    [] before(n) % 2 = 0 /\ same(n, n + 1) -> Twice[pieces[n]]
                    [] OTHER -> pieces[n]
  IN SelectSeq([n \in DOMAIN pieces |-> token(n)], LAMBDA piece : piece \notin Layout)

\* A language without the operators "or" and "and" has them as names.
IsWord(token) ==
  token \notin Operators \cup {"!", "||", "&&"} \cup Range(Twice)
     \cup {"(", ")", "{", "}", ";", ",", ":", "=", "end", "if", "else", "while", "for",
           "return", "let", "def", "#"}

\* The literals that hold a placeholder.
Placeholders == {"{{RIGHT}}", "{{BODY}}"}

Literals == {ast[q].name : q \in {r \in DOMAIN ast : ast[r].kind = "literal"}}

Leaf(word) == Tree(IF word \in Literals THEN "literal" ELSE "identifier", word, NoType, <<>>)

-----------------------------------------------------------------------------
(* Expressions *)

RECURSIVE ReadExpression(_, _), ReadOperators(_, _, _), ReadUnary(_, _), ReadCalls(_, _),
          ReadArgs(_, _, _)

\* Python has assignments as statements only.
ReadExpression(s, i) ==
  IF IsWord(Sign(s, i)) /\ Sign(s, i + 1) = "=" /\ Generator # "Python"
  THEN Around(ReadExpression(s, i + 2), "assignment", s[i])
  ELSE ReadOperators(s, ReadUnary(s, i), 1)

Level(sign) == CHOOSE n \in DOMAIN Levels : sign \in Levels[n]

\* What follows a left operand, by operators of level n and above.
ReadOperators(s, operand, n) ==
  Then(operand, LAMBDA left :
    IF Sign(s, left.at) \notin Operators \/ Level(Sign(s, left.at)) < n THEN left
    ELSE Then(ReadOperators(s, ReadUnary(s, left.at + 1), Level(s[left.at]) + 1),
              LAMBDA right :
                IF Sign(s, right.at) \in Comparisons /\ ~Groups(s[left.at]) THEN Fail
                ELSE ReadOperators(s, Found(Tree("binary", s[left.at], NoType,
                                                 <<left.tree, right.tree>>), right.at), n)))

ReadUnary(s, i) ==
  CASE Sign(s, i) \in UnarySigns -> Around(ReadUnary(s, i + 1), "unary", s[i])
    [] Sign(s, i) = "(" -> ReadCalls(s, Closed(s, ReadExpression(s, i + 1), ")"))
    [] IsWord(Sign(s, i)) -> ReadCalls(s, Found(Leaf(s[i]), i + 1))
    [] OTHER -> Fail

ReadCalls(s, operand) ==
  Then(operand, LAMBDA callee :
    IF Sign(s, callee.at) # "(" THEN callee
    ELSE Then(ReadArgs(s, callee.at + 1, <<>>), LAMBDA args :
           ReadCalls(s, Found(Tree("call", "", NoType, <<callee.tree>> \o args.tree),
                              args.at))))

ReadArgs(s, i, args) ==
  IF args = <<>> /\ Sign(s, i) = ")" THEN Found(<<>>, i + 1)
  ELSE Then(ReadExpression(s, i), LAMBDA arg :
         CASE Sign(s, arg.at) = "," -> ReadArgs(s, arg.at + 1, Append(args, arg.tree))
           [] Sign(s, arg.at) = ")" -> Found(Append(args, arg.tree), arg.at + 1)
           [] OTHER -> Fail)

-----------------------------------------------------------------------------
(* Statements in the syntax of C *)

\* Something that may be left out before a sign.
ReadOptional(s, i, sign) ==
  IF Sign(s, i) = sign THEN Found(Null, i + 1) ELSE Closed(s, ReadExpression(s, i), sign)

\* "type name = value;", "type name;" or, in JavaScript, "let name = value;".
ReadDeclaration(s, i) ==
  CASE Sign(s, i + 2) = ";" /\ s[i] # "let" ->
         Found(Tree("declaration", s[i + 1], s[i], <<Null>>), i + 3)
    [] Sign(s, i + 2) = "=" ->
         Then(Closed(s, ReadExpression(s, i + 3), ";"), LAMBDA value :
           Found(Tree("declaration", s[i + 1], IF s[i] = "let" THEN NoType ELSE s[i],
                      <<value.tree>>), value.at))
    [] OTHER -> Fail

IsDeclaration(s, i) ==
  (IsWord(Sign(s, i)) \/ Sign(s, i) = "let") /\ IsWord(Sign(s, i + 1))

\* An assignment is a statement of its own kind, but not in the header of a loop.
Statement(part) ==
  Then(part, LAMBDA e : Found(IF e.tree[1] = "assignment" THEN e.tree
                              ELSE Tree("expression", "", NoType, <<e.tree>>), e.at))

RECURSIVE ReadStatement(_, _), ReadItems(_, _, _)

\* The initial part of the header of a loop.
ReadStart(s, i) ==
  CASE IsDeclaration(s, i) -> ReadDeclaration(s, i)
    [] Sign(s, i) = ";" -> Found(Null, i + 1)
    [] OTHER -> Around(Closed(s, ReadExpression(s, i), ";"), "expression", "")

ReadFor(s, i) ==
  Then(ReadStart(s, i), LAMBDA start :
    Then(ReadOptional(s, start.at, ";"), LAMBDA condition :
      Then(ReadOptional(s, condition.at, ")"), LAMBDA increment :
        Then(ReadStatement(s, increment.at), LAMBDA body :
          Found(Tree("for", "", NoType,
                     <<start.tree, condition.tree, increment.tree, body.tree>>),
                body.at)))))

ReadHeader(s, i) ==
  IF Sign(s, i) = "(" THEN Closed(s, ReadExpression(s, i + 1), ")") ELSE Fail

ReadElse(s, i) ==
  IF Sign(s, i) = "else" THEN ReadStatement(s, i + 1) ELSE Found(Null, i)

ReadIf(s, i) ==
  Then(ReadHeader(s, i), LAMBDA condition :
    Then(ReadStatement(s, condition.at), LAMBDA then :
      Then(ReadElse(s, then.at), LAMBDA else :
        Found(Tree("if", "", NoType, <<condition.tree, then.tree, else.tree>>), else.at))))

ReadWhile(s, i) ==
  Then(ReadHeader(s, i), LAMBDA condition :
    Then(ReadStatement(s, condition.at), LAMBDA body :
      Found(Tree("while", "", NoType, <<condition.tree, body.tree>>), body.at)))

ReadStatement(s, i) ==
  CASE Sign(s, i) = "{"      -> ReadItems(s, i + 1, <<>>)
    [] Sign(s, i) = "if"     -> ReadIf(s, i + 1)
    [] Sign(s, i) = "while"  -> ReadWhile(s, i + 1)
    [] Begin(s, i, <<"for", "(">>) -> ReadFor(s, i + 2)
    [] Sign(s, i) = ";"      -> Found(Tree("empty", "", NoType, <<>>), i + 1)
    [] Sign(s, i) = "return" -> Around(ReadOptional(s, i + 1, ";"), "return", "")
    [] OTHER                 -> Statement(Closed(s, ReadExpression(s, i), ";"))

ReadItem(s, i) == IF IsDeclaration(s, i) THEN ReadDeclaration(s, i) ELSE ReadStatement(s, i)

\* The rest of a block.
ReadItems(s, i, items) ==
  IF Sign(s, i) = "}" THEN Found(Tree("block", "", NoType, items), i + 1)
  ELSE Then(ReadItem(s, i), LAMBDA item :
         ReadItems(s, item.at, Append(items, item.tree)))

RECURSIVE ReadParams(_, _, _), ReadFunctions(_, _, _)

ReadParams(s, i, params) ==
  LET all == Append(params, Tree("parameter", Sign(s, i + 1), Sign(s, i), <<>>)) IN
  CASE Sign(s, i) = ")" -> Found(params, i + 1)
    [] IsWord(Sign(s, i)) /\ Sign(s, i + 2) = "," -> ReadParams(s, i + 3, all)
    [] IsWord(Sign(s, i)) /\ Sign(s, i + 2) = ")" -> Found(all, i + 3)
    [] OTHER -> Fail

\* The return type is at i.
ReadFunction(s, i) ==
  Then(IF Sign(s, i + 2) = "(" THEN ReadParams(s, i + 3, <<>>) ELSE Fail, LAMBDA params :
    Then(IF Sign(s, params.at) = "{" THEN ReadItems(s, params.at + 1, <<>>) ELSE Fail,
         LAMBDA body :
           Found(Tree("function", s[i + 1], s[i], Append(params.tree, body.tree)), body.at)))

ReadFunctions(s, i, functions) ==
  IF i > Len(s) THEN Found(Tree("program", "", NoType, functions), i)
  ELSE Then(ReadFunction(s, IF Begin(s, i, <<"public", "static">>) THEN i + 2 ELSE i),
            LAMBDA function :
              ReadFunctions(s, function.at, Append(functions, function.tree)))

\* A Java program is in a class.
ReadProgram(s) ==
  IF Generator # "Java" THEN ReadFunctions(s, 1, <<>>)
  ELSE IF Begin(s, 1, <<"public", "class", "IPLProgram", "{">>) /\ Last(s) = "}"
       THEN ReadFunctions(SubSeq(s, 5, Len(s) - 1), 1, <<>>) ELSE Fail

-----------------------------------------------------------------------------
(* Python *)

\* The lines that say something: how far they are in, and their tokens up to
\* a comment.
Lines(pieces) ==
  LET starts == {0} \cup {n \in DOMAIN pieces : pieces[n] = NewLine}
      upTo(sequence, piece) ==
        IF Contains(sequence, piece)
        THEN SubSeq(sequence, 1, SelectInSeq(sequence, LAMBDA p : p = piece) - 1)
        ELSE sequence
      line(start) == upTo(SubSeq(pieces, start + 1, Len(pieces)), NewLine)
      nth(k) == CHOOSE start \in starts : Cardinality({n \in starts : n <= start}) = k
      indent(l) == SelectInSeq(l, LAMBDA piece : piece \notin Layout) - 1
  IN SelectSeq([k \in 1 .. Cardinality(starts) |->
                  [indent |-> indent(line(nth(k))),
                   tokens |-> Tokens(upTo(line(nth(k)), Comment))]],
               LAMBDA l : l.tokens # <<>>)

\* An expression that is all there is.
ReadAll(s) ==
  Then(ReadExpression(s, 1), LAMBDA e : IF e.at = Len(s) + 1 THEN e ELSE Fail)

ReadSimple(s) ==
  CASE s = <<"return">> -> Found(Tree("return", "", NoType, <<Null>>), 2)
    [] Head(s) = "return" /\ Len(s) > 1 -> Around(ReadAll(Tail(s)), "return", "")
    [] IsWord(Head(s)) /\ Sign(s, 2) = "=" ->
         Around(ReadAll(SubSeq(s, 3, Len(s))), "assignment", Head(s))
    [] OTHER -> Around(ReadAll(s), "expression", "")

\* The line of a simple statement.
ReadLine(s, i) == Then(ReadSimple(s), LAMBDA simple : Found(simple.tree, i + 1))

RECURSIVE ReadSuite(_, _, _, _), ReadCompound(_, _, _)

\* The statements from line i on that are as far in as indent.
ReadSuite(ls, i, indent, read) ==
  CASE i > Len(ls) \/ ls[i].indent < indent -> Found(Tree("block", "", NoType, read), i)
    [] ls[i].indent > indent -> Fail
    [] OTHER ->
         Then(IF Contains(ls[i].tokens, ":")
              THEN ReadCompound(ls, i, SelectInSeq(ls[i].tokens, LAMBDA t : t = ":"))
              ELSE ReadLine(ls[i].tokens, i),
              LAMBDA one : ReadSuite(ls, one.at, indent, Append(read, one.tree)))

\* What a colon at position c of line i introduces.
ReadBody(ls, i, c) ==
  CASE c < Len(ls[i].tokens) ->
         ReadLine(SubSeq(ls[i].tokens, c + 1, Len(ls[i].tokens)), i)
    [] c = Len(ls[i].tokens) /\ i < Len(ls) /\ ls[i + 1].indent > ls[i].indent ->
         ReadSuite(ls, i + 1, ls[i + 1].indent, <<>>)
    [] OTHER -> Fail

\* The other branch of an if that is as far in as indent.
ReadElseBody(ls, i, indent) ==
  IF i \in DOMAIN ls /\ ls[i].indent = indent /\ Begin(ls[i].tokens, 1, <<"else", ":">>)
  THEN ReadBody(ls, i, 2) ELSE Found(Null, i)

\* The first colon of line i is at position c.
ReadCompound(ls, i, c) ==
  LET s == ls[i].tokens
      names == [n \in 1 .. (c - 4) \div 2 |-> Tree("parameter", s[2 * n + 2], NoType, <<>>)]
      condition == ReadAll(SubSeq(s, 2, c - 1)).tree
  IN  Then(ReadBody(ls, i, c), LAMBDA body :
        CASE s[1] = "def" ->
               Found(Tree("function", s[2], NoType, Append(names, body.tree)), body.at)
          [] s[1] = "while" ->
               Found(Tree("while", "", NoType, <<condition, body.tree>>), body.at)
          [] s[1] = "if" ->
               Then(ReadElseBody(ls, body.at, ls[i].indent), LAMBDA else :
                 Found(Tree("if", "", NoType, <<condition, body.tree, else.tree>>), else.at))
          [] OTHER -> Fail)

ReadPython(pieces) ==
  LET lines_ == Lines(pieces)
  IN Then(ReadSuite(lines_, 1, 0, <<>>), LAMBDA suite :
       IF suite.at = Len(lines_) + 1
       THEN Found(Tree("program", "", NoType, suite.tree[4]), suite.at) ELSE Fail).tree

-----------------------------------------------------------------------------
(* The AST as the reader should find it *)

Common == {"int", "float", "double", "bool", "string"}

\* The names of a target language for the types of IPL.
TargetType(type) ==
  CASE Generator \in {"C", "C++"} /\ type = "bool" -> IF Generator = "C" THEN "int" ELSE type
    [] Generator = "C" /\ type = "string" -> "char*"
    [] Generator = "Java" /\ type = "bool" -> "boolean"
    [] Generator = "Java" /\ type = "string" -> "String"
    [] Generator = "Python" \/ Bare -> NoType
    [] OTHER -> type

\* Python declares nothing; without braces a block of one statement is that
\* statement.
Shape(at) ==
  LET shape[p \in DOMAIN ast] ==
        LET node == ast[p]
            child(n) == IF Has(p, n) THEN shape[Append(p, n)] ELSE Null
            children == [n \in 1 .. node.arity |-> child(n)]
        IN CASE node.kind = "declaration" /\ Generator = "Python" ->
                  Tree("assignment", node.name, NoType,
                       <<IF Has(p, 1) THEN child(1) ELSE Leaf("None")>>)
             [] node.kind = "block" /\ Bare /\ node.arity = 1 -> child(1)
             [] node.kind \in {"literal", "identifier"} ->
                  Tree(node.kind, node.name, NoType, <<>>)
             [] OTHER -> Tree(node.kind, node.name,
                              IF node.type = NoType THEN NoType ELSE TargetType(node.type),
                              children)
  IN shape[at]

Expressions == {"assignment", "binary", "unary", "call", "literal", "identifier"}
Statements == {"declaration", "assignment", "block", "return", "expression", "if",
               "while", "for"}

ParentOf(p) == ast[Front(p)]

\* The branch of an if or the body of a loop.
IsBranch(p) ==
  \/ ParentOf(p).kind = "if" /\ Last(p) \in {2, 3}
  \/ ParentOf(p).kind = "while" /\ Last(p) = 2
  \/ ParentOf(p).kind = "for" /\ Last(p) = 4

IsStatement(p) == ParentOf(p).kind = "block" \/ IsBranch(p)

-----------------------------------------------------------------------------
(* Correctness *)

\* The target language has the operator of a node.
HasOperator(p) ==
  CASE ast[p].kind = "binary" -> ast[p].name \in Operators
    [] ast[p].kind = "unary"  -> ast[p].name \in UnarySigns
    [] OTHER -> TRUE

\* What the default formats get right, node by node.
KeptWithBraces(p) ==
  LET node == ast[p]
      generic == Generator = "generic"
      known == Common \cup (IF Generator = "Java" THEN {"String"} ELSE {}) IN
  CASE node.kind = "assignment" -> IsStatement(p)
    [] node.kind = "declaration" ->
         ~IsBranch(p) /\ (node.type \in known \/ (generic /\ node.type # NoType))
    [] node.kind = "function" -> node.type \in known \cup {"void"} \/ generic
    [] node.kind = "parameter" -> node.type \in known \/ Generator # "Java"
    [] node.kind \in {"unary", "binary"} -> HasOperator(p)
    [] node.kind = "for" -> IF Generator = "Java" THEN ~Has(p, 1) ELSE ~Has(p, 2)
    [] OTHER -> TRUE

(***************************************************************************)
(* The text of a program, read by the grammar of the target language, is   *)
(* the program again, with its operands, branches and blocks where they    *)
(* were and its types under their names in that language, if and only if   *)
(* no assignment is part of an expression (each brings its own semicolon), *)
(* the header of each for loop is one the format has the right number of   *)
(* semicolons for, no type is outside the table, no declaration is a       *)
(* branch, and the target language has the operators.                      *)
(***************************************************************************)
TextReadsBack ==
  Done /\ rules = NoRules /\ Generator # "Python" =>
    (ReadProgram(Tokens(text[<<>>])).tree = Shape(<<>>)
       <=> \A p \in DOMAIN ast : KeptWithBraces(p))

\* What the Python generator gets right.
KeptByIndentation(p) ==
  LET node == ast[p]
      oneLine(q) == q \in DOMAIN ast => ast[q].kind \notin {"if", "while"} IN
  CASE node.kind = "assignment" -> IsStatement(p)
    [] node.kind \in {"unary", "binary"} -> HasOperator(p)
    [] node.kind = "if" -> ~Has(p, 3) /\ oneLine(Append(p, 2))
    [] node.kind = "while" -> oneLine(Append(p, 2))
    [] node.kind = "block" -> node.arity > 0 /\ ParentOf(p).kind # "block"
    [] node.kind = "for" -> FALSE
    [] OTHER -> TRUE

(***************************************************************************)
(* The indentation of a Python text says again which statement belongs to  *)
(* which branch, body and function, however deeply they are nested, if and *)
(* only if no branch is "else" (it loses the indentation of its "if"), no  *)
(* block is empty or directly in a block, no loop is a for loop, and no    *)
(* expression has an assignment or an operator that Python does not have.  *)
(***************************************************************************)
IndentationReadsBack ==
  Done /\ Generator = "Python" =>
    (ReadPython(text[<<>>]) = Shape(<<>>) <=> \A p \in DOMAIN ast : KeptByIndentation(p))

\* How tightly a node holds its operands.
Binding(p) ==
  CASE ast[p].kind = "binary" -> Level(ast[p].name)
    [] ast[p].kind = "unary"  -> Len(Levels) + 1
    [] ast[p].kind \in {"call", "literal", "identifier"} -> Len(Levels) + 2

\* An operand that needs no parentheses, and no space before it.
Fits(p) ==
  LET parent == ParentOf(p) IN
  CASE parent.kind = "binary" ->
         Binding(p) >= Binding(Front(p))
                         + (IF Last(p) = 1 /\ Groups(parent.name) THEN 0 ELSE 1)
    [] parent.kind = "unary" ->
         /\ Binding(p) > Len(Levels)
         /\ ast[p].kind = "unary" /\ ast[p].name = parent.name
              => parent.name \notin DOMAIN Twice
    [] parent.kind = "call" /\ Last(p) = 1 -> Binding(p) = Len(Levels) + 2
    [] OTHER -> TRUE

Within(q, p) == Len(p) <= Len(q) /\ SubSeq(q, 1, Len(p)) = p

\* What the bare templates get right of a node below p.
KeptBare(q, p) ==
  LET node == ast[q] IN
  CASE node.kind = "assignment" -> q = p \/ IsStatement(q)
    [] node.kind \in Expressions \ {"assignment"} -> q = p \/ Fits(q)
    [] node.kind = "declaration" ->
         /\ Has(q, 1)
         /\ \A n \in Len(p) .. Len(q) - 1 : ast[SubSeq(q, 1, n)].kind = "block"
    [] node.kind = "block" -> node.arity = 1
    [] node.kind = "if" -> Has(q, 3)
    [] node.kind = "for" -> ~Has(q, 1)
    [] OTHER -> TRUE

\* The text of a node read by itself.
ReadNode(p) ==
  LET s == Tokens(text[p])
      e == ReadExpression(s, 1)
      item == ReadItem(s, 1)
      found == IF ast[p].kind \in Expressions /\ ~IsStatement(p) THEN e ELSE item
  IN  IF found.at = Len(s) + 1 THEN found.tree ELSE Null

\* Of the two files that are shipped, only that of JavaScript has templates for
\* statements in the syntax of C; expressions are read in both languages.
Readable(p) ==
  /\ LiteralsOf(p) \cap Placeholders = {}
  /\ \/ /\ language \in {"javascript", "rust"}
        /\ ast[p].kind \in Expressions \ {"assignment"}
     \/ /\ language = "javascript" /\ ast[p].kind \in Statements
        /\ ast[p].kind = "assignment" => IsStatement(p)

(***************************************************************************)
(* The templates that are shipped print no parentheses and no braces.  An  *)
(* expression printed by them is read back by the grammar of JavaScript or *)
(* of Rust if and only if the language has its operators, and precedence   *)
(* and grouping put every operand where it was: to the left, except that   *)
(* no comparison is an operand of a comparison in Rust, and that no sign   *)
(* is doubled in JavaScript.  A statement is read back as JavaScript if    *)
(* and only if its expressions are, its blocks are single statements, each *)
(* if has an else, each declaration a value and is no branch, and no for   *)
(* loop has an initial part.                                               *)
(***************************************************************************)
BareTextReadsBack ==
  Bare => \A p \in DOMAIN text :
    Readable(p) =>
      LET below == {q \in DOMAIN ast : Within(q, p)}
      IN  ReadNode(p) = Shape(p) <=> /\ \A q \in below : HasOperator(q)
                                     /\ \A q \in below : KeptBare(q, p)
=============================================================================
