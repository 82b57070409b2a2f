----------------------------- MODULE SymbolIndex -----------------------------
(***************************************************************************)
(* What class Compiler in src/main.cpp makes of a program the analyzer has *)
(* accepted: the summary of --emit-sema (printSemanticSummary), and the    *)
(* flat SymbolTable of src/Symbol.cpp that indexAST fills in a second walk *)
(* over the tree and printSymbolSummary prints.                            *)
(***************************************************************************)
EXTENDS SemanticAnalyzer

VARIABLES
  phase,      \* "analysis", "summary", "indexing", "printed"
  unprinted,  \* the calls of printSemanticSummary that are still to be made
  summary,    \* the scopes it has printed
  pending,    \* the calls of indexAST that are still to be made
  symbols     \* symbols_: a function from names to kinds and definitions

indexVars == <<phase, unprinted, summary, pending, symbols>>

-----------------------------------------------------------------------------
(* printSemanticSummary *)

Analysis == phase = "analysis" /\ Next /\ UNCHANGED indexVars

\* analyze() has returned true.
Analyzed == phase = "analysis" /\ status = "done" /\ reports = {}

\* With emitSemanticSummary_.
StartSummary ==
  /\ Analyzed
  /\ phase' = "summary" /\ unprinted' = << [scope |-> 1, indent |-> 0] >>
  /\ UNCHANGED <<vars, summary, pending, symbols>>

\* The calls for the children of s, which are in the order they were made in.
Children(s, indent) ==
  LET calls[c \in 0 .. Len(scopes)] ==
        CASE c = 0 -> <<>>
          [] c # 0 /\ scopes[c].parent = s ->
               Append(calls[c - 1], [scope |-> c, indent |-> indent])
          [] c # 0 /\ scopes[c].parent # s -> calls[c - 1]
  IN  calls[Len(scopes)]

\* The symbols of a scope, and below them those of its children, indented.
PrintScope ==
  /\ phase = "summary" /\ unprinted # <<>>
  /\ LET s      == Head(unprinted).scope
         indent == Head(unprinted).indent
     IN  /\ summary' = Append(summary, [indent |-> indent, at |-> scopes[s].at,
                                        symbols |-> scopes[s].symbols])
         /\ unprinted' = Children(s, indent + 1) \o Tail(unprinted)
  /\ UNCHANGED <<vars, phase, pending, symbols>>

Summarized == phase = "summary" /\ unprinted = <<>>

-----------------------------------------------------------------------------
(* SymbolTable *)

NoSymbols == [name \in {} |-> {}]

\* Mutant: the table keeps the symbol that has the name already.
AddUnlessPresent(table, name, symbol) ==
  [n \in DOMAIN table \cup {name} |-> IF n \in DOMAIN table THEN table[n] ELSE symbol]

\* addSymbol: one symbol for each name, the last one that was added.
AddSymbol(table, name, symbol) ==
  [n \in DOMAIN table \cup {name} |-> IF n = name THEN symbol ELSE table[n]]

-----------------------------------------------------------------------------
(* indexAST *)

\* The table is cleared, the walk starts.
StartIndex ==
  /\ Analyzed \/ Summarized
  /\ phase' = "indexing" /\ symbols' = NoSymbols
  /\ pending' = <<Task("visit", <<>>)>>
  /\ UNCHANGED <<vars, unprinted, summary>>

Indexed == Head(pending).at

Indexes(kinds) ==
  phase = "indexing" /\ pending # <<>> /\ ast[Indexed].kind \in kinds

\* The children in the slots from .. to that are not null are next.
Descend(from, to) == pending' = Visits(Indexed, from, to) \o Tail(pending)

Record(kind) ==
  LET node == ast[Indexed] IN
  symbols' = AddSymbol(symbols, node.name, [kind |-> kind, definition |-> node.type])

\* The parameters of a function are not recorded, only its body is walked.
IndexFunction ==
  /\ Indexes({"function"}) /\ Record("function")
  /\ Descend(ast[Indexed].arity, ast[Indexed].arity)
  /\ UNCHANGED <<vars, phase, unprinted, summary>>

IndexDeclaration ==
  /\ Indexes({"declaration"}) /\ Record("variable") /\ Descend(1, 1)
  /\ UNCHANGED <<vars, phase, unprinted, summary>>

Walked == { "program", "block", "assignment", "binary", "unary", "call", "return",
            "expression", "if", "while", "for", "literal", "identifier" }

\* Mutant: a header and its body are walked, the branch behind them is not.
WalkTwo ==
  /\ Indexes(Walked)
  /\ Descend(1, IF ast[Indexed].kind = "if" THEN 2
                ELSE ast[Indexed].arity)
  /\ UNCHANGED <<vars, phase, unprinted, summary, symbols>>

Walk ==
  /\ Indexes(Walked) /\ Descend(1, ast[Indexed].arity)
  /\ UNCHANGED <<vars, phase, unprinted, summary, symbols>>

\* printSymbolSummary, in the order of an unordered_map.
PrintSymbols ==
  /\ phase = "indexing" /\ pending = <<>> /\ phase' = "printed"
  /\ UNCHANGED <<vars, unprinted, summary, pending, symbols>>

-----------------------------------------------------------------------------
IndexInit ==
  /\ Init /\ phase = "analysis" /\ unprinted = <<>> /\ summary = <<>>
  /\ pending = <<>> /\ symbols = NoSymbols

Printed == phase = "printed" /\ UNCHANGED <<vars, indexVars>>

IndexNext ==
  \/ Analysis \/ StartSummary \/ PrintScope \/ StartIndex
  \/ IndexFunction \/ IndexDeclaration \/ Walk
  \/ PrintSymbols \/ Printed

IndexSpec == IndexInit /\ [][IndexNext]_<<vars, indexVars>>

-----------------------------------------------------------------------------
(* Correctness *)

Recorded == {d \in Declarers : ast[d].kind # "parameter"}

(***************************************************************************)
(* The two tables agree: the index has an entry for exactly the names that *)
(* functions and variables of the scopes have, and each entry is a symbol  *)
(* of some scope, with its kind and its type, although the analyzer stores *)
(* resolved types and indexAST what is written.                            *)
(***************************************************************************)
IndexAgreesWithScopes ==
  phase = "printed" =>
    /\ DOMAIN symbols = {ast[d].name : d \in Recorded}
    /\ \A name \in DOMAIN symbols : \E s \in DOMAIN scopes :
         Symbol(name, symbols[name].kind, symbols[name].definition)
           \in scopes[s].symbols

(***************************************************************************)
(* There is one entry for a name, whatever scopes it is declared in: the   *)
(* last declaration in the source, which may be a local variable with the  *)
(* name of a function.                                                     *)
(***************************************************************************)
LastDeclarationIsIndexed ==
  phase = "printed" =>
    \A name \in DOMAIN symbols : \E d \in Recorded :
      /\ ast[d].name = name
      /\ symbols[name] = [kind |-> Declared(d).kind, definition |-> Declared(d).type]
      /\ \A e \in Recorded \ {d} : ast[e].name = name => Precedes(e, d)

\* The nodes above p that have a scope.
Owners(p) == {n \in 0 .. Len(p) - 1 : ast[SubSeq(p, 1, n)].kind \in ScopeKinds}

(***************************************************************************)
(* docs/usage.md: the summary "lists globals first (functions, top-level   *)
(* bindings), then prints nested scopes with symbols indented beneath the  *)
(* owning function or block".  Its lines follow the source, each scope is  *)
(* as deep as its owner is nested, and it has the names declared there.    *)
(***************************************************************************)
SummaryFollowsTheSource ==
  Summarized =>
    /\ {summary[n].at : n \in DOMAIN summary} = {p \in DOMAIN ast : ast[p].kind \in ScopeKinds}
    /\ \A n \in DOMAIN summary :
         /\ n > 1 => Precedes(summary[n - 1].at, summary[n].at)
         /\ summary[n].indent = Cardinality(Owners(summary[n].at))
         /\ {s.name : s \in summary[n].symbols}
              = {ast[d].name : d \in {e \in Declarers : EnclosingScope(e) = summary[n].at}}
=============================================================================
