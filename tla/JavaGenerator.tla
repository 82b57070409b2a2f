---------------------------- MODULE JavaGenerator ----------------------------
(***************************************************************************)
(* JavaCodeGenerator of src/codegen where it differs from the default      *)
(* formats: functions are static methods of one class, and the header of a *)
(* for loop has semicolons of its own.                                     *)
(***************************************************************************)
EXTENDS Generator

JavaProgram ==
  \E p \in Due("program") :
    Emit(p, {<<"public", Space, "class", Space, "IPLProgram", Space, "{", NewLine, NewLine>>
               \o Parts(p, 1, ast[p].arity, <<Tab>>, <<NewLine, NewLine>>)
               \o <<"}", NewLine>>})

JavaFunction ==
  \E p \in Due("function") :
    Emit(p, {<<"public", Space, "static", Space>> \o Signature(p) \o <<NewLine>>
               \o Part(p, ast[p].arity)})

JavaBlock ==
  \E p \in Due("block") :
    Emit(p, {<<Space, "{", NewLine>>
               \o Parts(p, 1, ast[p].arity, <<Tab, Tab>>, <<NewLine>>)
               \o <<Tab, "}">>})

\* A declaration as the first part has brought its own semicolon.
JavaFor ==
  \E p \in Due("for") :
    Emit(p, {<<"for", Space, "(">> \o ForHeader(p, <<";", Space>>) \o Part(p, 3)
               \o <<")", Space>> \o Part(p, 4)})

JavaGenerate == SameInJava \/ JavaProgram \/ JavaFunction \/ JavaBlock \/ JavaFor
=============================================================================
