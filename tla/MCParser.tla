------------------------------ MODULE MCParser ------------------------------
(***************************************************************************)
(* Token streams for checking Parser: every short stream over an alphabet  *)
(* with one lexeme per branch of the parser, and every stream one edit     *)
(* away from (or cut off in) a program that exercises the productions.     *)
(***************************************************************************)
EXTENDS Parser, SequencesExt

CONSTANTS MaxShort,     \* the length up to which all streams are tried
          MaxEdited     \* how many of the programs below are edited

Alphabet ==
  { "int", "x", "1", "(", ")", "{", "}", ";", "=", ",", "if", "otherwise",
    "while", "for", "return", "let", "+", "!" }

MCLexemes == Alphabet \cup
  {"f", "void", "<", "or", "and", "*", "=="}

\* The kinds a typed lexer gives these lexemes.
MCToken(lexeme) ==
  [ lexeme |-> lexeme,
    kind   |-> CASE lexeme \in {"x", "f"} -> "Identifier"
                 [] lexeme = "1"          -> "Literal"
                 [] OTHER                 -> "Unknown" ]

\* The shipped lexer knows one kind only.
Untyped(program) == [i \in DOMAIN program |-> [program[i] EXCEPT !.kind = "Unknown"]]

Tokens(lexemes) == [i \in DOMAIN lexemes |-> MCToken(lexemes[i])]

Programs == <<
  Tokens(<<"int", "f", "(", "int", "x", ",", "int", "x", ")", "{",
           "return", "x", "+", "1", ";", "}">>),
  Tokens(<<"void", "f", "(", ")", "{", "for", "(", "let", "x", "=", "1", ";",
           "x", "<", "1", ";", "x", "=", "x", ")", "{", "while", "(", "!", "x",
           ")", "f", "(", "x", ",", "1", ")", "(", ")", ";", "}", "}">>),
  Tokens(<<"{", "int", "x", "=", "(", "1", ")", ";", "let", "int", "x", "=",
           "1", ";", "x", "=", "x", "==", "1", "or", "x", "and", "1", "*", "x",
           ";", "}">>),
  Tokens(<<"int", "f", "(", ")", "{", "if", "(", "x", ")", "{", "x", ";", "}",
           "otherwise", "for", "(", ";", ";", ")", "{", "int", "x", ";", "}",
           "return", ";", "}">>) >>

Edited(program) ==
  {SubSeq(program, 1, i) : i \in 0 .. Len(program)}
    \cup {RemoveAt(program, i) : i \in DOMAIN program}
    \cup {ReplaceAt(program, i, MCToken(l)) : i \in DOMAIN program, l \in Alphabet}
    \cup {InsertAt(program, i, MCToken(l)) : i \in 1 .. Len(program) + 1, l \in Alphabet}

Short == UNION {[1 .. n -> {MCToken(l) : l \in Alphabet}] : n \in 1 .. MaxShort}

MCInputs ==
  Short \cup UNION {Edited(Programs[i]) : i \in 1 .. MaxEdited}
        \cup {Untyped(Programs[i]) : i \in 1 .. MaxEdited}
=============================================================================
