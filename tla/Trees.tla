-------------------------------- MODULE Trees --------------------------------
(***************************************************************************)
(* The ASTs of src/include/AST.h as the checked instances write them down: *)
(* a tree is a function from paths to nodes, <<>> is its root and the child *)
(* in slot i of the node at p is at Append(p, i).                          *)
(***************************************************************************)
EXTENDS Integers, Sequences

NoTypeName == "no type"   \* an empty type name: NoType of the modules about trees

\* The tree with a root and the trees of its children; NoTree is a null child.
NoTree == [p \in {} |-> {}]

Node(kind, name, type, children) ==
  LET inner == UNION {{<<i>> \o p : p \in DOMAIN children[i]} : i \in DOMAIN children}
  IN [p \in {<<>>} \cup inner |->
        IF p = <<>> THEN [kind |-> kind, name |-> name, type |-> type,
                          arity |-> Len(children)]
                    ELSE children[Head(p)][Tail(p)]]

Id(name)               == Node("identifier", name, NoTypeName, <<>>)
Binary(op, left, right) == Node("binary", op, NoTypeName, <<left, right>>)
Unary(op, operand)      == Node("unary", op, NoTypeName, <<operand>>)
Not(operand)            == Unary("!", operand)
Call(name, args)        == Node("call", "", NoTypeName, <<Id(name)>> \o args)
Let(type, name, init)   == Node("declaration", name, type, <<init>>)
Assign(name, value)    == Node("assignment", name, NoTypeName, <<value>>)
Expression(e)          == Node("expression", "", NoTypeName, <<e>>)
Return(value)          == Node("return", "", NoTypeName, <<value>>)
Block(statements)      == Node("block", "", NoTypeName, statements)
If(cond, then, else)   == Node("if", "", NoTypeName, <<cond, then, else>>)
While(cond, body)      == Node("while", "", NoTypeName, <<cond, body>>)
For(init, cond, inc, body) == Node("for", "", NoTypeName, <<init, cond, inc, body>>)
Parameter(type, name)  == Node("parameter", name, type, <<>>)
Function(type, name, params, body) ==
  Node("function", name, type, params \o <<Block(body)>>)
Program(functions)     == Node("program", "", NoTypeName, functions)
=============================================================================
