-------------------------- MODULE ParserBraceProofs --------------------------
(***************************************************************************)
(* The blocks of a program that the parser accepts are closed where they   *)
(* were opened, for every set of token streams.                            *)
(***************************************************************************)
EXTENDS ParserProofs, FiniteSetTheorems

Opening == "{"

Closing == "}"

\* The opening braces that are not closed yet in front of a token.
Surplus(n) == Count(Opening, n) - Count(Closing, n)

\* The blocks that are being parsed: one frame each, and one without a frame
\* when the brace is consumed and parseBlock is called.
OpenIn(s) == {i \in 1 .. Len(s) : s[i].at = "block"}

Level(s) == Cardinality(OpenIn(s))

Entering(callee) == IF callee = "parseBlock" THEN 1 ELSE 0

\* Only then the property speaks of the program.
Clear == ~hadError /\ names \cap Braces = {}

Balanced ==
  /\ Surplus(pos) = Level(stack) + Entering(call)
  /\ \A n \in 0 .. pos : Surplus(n) >= 0
  /\ call = "synchronize" => AtEnd(pos)

\* The frames of parse() are at the bottom of the stack only ...
ProgramFrames == {"program function", "program statement"}

RootsAtBottom == \A i \in 1 .. Len(stack) : stack[i].at \in ProgramFrames => i = 1

\* ... so that no block is open when it runs.
Outer == {"parse", "done", "parseFunction"}

Grounded ==
  /\ RootsAtBottom
  /\ call \in {"parse", "done"} => stack = <<>>
  /\ call = "done" => AtEnd(pos)
  /\ call = "parseFunction" => Lexeme(pos) \in TypeKeywords

Punctuated ==
  \A n \in 1 .. Len(tokens) : tokens[n].lexeme \in Braces => tokens[n].kind = "Unknown"

BraceInv == Punctuated /\ Grounded /\ (Clear => Balanced)

-----------------------------------------------------------------------------
(* Counting *)

\* One more token counts when it has the lexeme.
LEMMA Counting ==
  ASSUME TypeOK, NEW lexeme, NEW n \in Cursor
  PROVE  /\ Count(lexeme, n) \in Nat
         /\ Count(lexeme, 0) = 0
         /\ n + 1 \in Cursor =>
              Count(lexeme, n + 1) =
                Count(lexeme, n) + (IF tokens[n + 1].lexeme = lexeme THEN 1 ELSE 0)
<1> DEFINE Places(m) == {i \in 1 .. m : tokens[i].lexeme = lexeme}
<1>1. n \in Nat
  BY DEF Cursor
<1>2. IsFiniteSet(Places(n))
  BY <1>1, FS_Interval, FS_Subset
<1>3. Count(lexeme, n) \in Nat
  BY <1>2, FS_CardinalityType DEF Count
<1>4. Count(lexeme, 0) = 0
  <2>1. Places(0) = {}
    OBVIOUS
  <2> QED BY <2>1, FS_EmptySet DEF Count
<1>5. ASSUME n + 1 \in Cursor
      PROVE  Count(lexeme, n + 1) =
               Count(lexeme, n) + (IF tokens[n + 1].lexeme = lexeme THEN 1 ELSE 0)
  <2>1. CASE tokens[n + 1].lexeme = lexeme
    <3>1. Places(n + 1) = Places(n) \cup {n + 1} /\ n + 1 \notin Places(n)
      BY <1>1, <2>1
    <3>2. Cardinality(Places(n + 1)) = Cardinality(Places(n)) + 1
      BY <1>2, <3>1, FS_AddElement
    <3> QED BY <2>1, <3>2 DEF Count
  <2>2. CASE tokens[n + 1].lexeme # lexeme
    <3>1. Places(n + 1) = Places(n)
      BY <1>1, <2>2
    <3>2. Count(lexeme, n + 1) = Count(lexeme, n)
      BY <3>1 DEF Count
    <3>3. Count(lexeme, n) + 0 = Count(lexeme, n)
      BY <1>3
    <3> QED BY <2>2, <3>2, <3>3
  <2> QED BY <2>1, <2>2
<1> QED BY <1>3, <1>4, <1>5

\* Where there is a token.
LEMMA TokenAt ==
  ASSUME TypeOK, NEW p \in Nat
  PROVE  /\ Lexeme(p) # NoLexeme => p + 1 \in Cursor /\ p \in Cursor
         /\ p + 1 \in Cursor => Lexeme(p) = tokens[p + 1].lexeme /\ ~AtEnd(p)
         /\ ~AtEnd(p) => Lexeme(p) # NoLexeme
         /\ Kind(p) # "Unknown" => ~AtEnd(p) /\ Kind(p) = tokens[p + 1].kind
<1>1. Len(tokens) \in Nat /\ (p < Len(tokens) => tokens[p + 1].lexeme \in Lexemes)
  <2>1. p < Len(tokens) => tokens[p + 1] \in Token
    BY DEF TypeOK
  <2> QED BY <2>1 DEF TypeOK, Token
<1> QED BY <1>1, LexemesAssumption DEF Lexeme, Kind, AtEnd, Cursor, NoLexeme

LEMMA BraceFacts ==
  /\ Braces = {Opening, Closing} /\ Opening # Closing
  /\ Opening # NoLexeme /\ Closing # NoLexeme
BY DEF Braces, Opening, Closing, NoLexeme

LEMMA SurplusIsInt ==
  ASSUME TypeOK, NEW n \in Cursor PROVE Surplus(n) \in Int /\ Surplus(0) = 0
BY Counting DEF Surplus

LEMMA SurplusStep ==
  ASSUME TypeOK, NEW p \in Nat, Lexeme(p) # NoLexeme
  PROVE  /\ Surplus(p) \in Int /\ Surplus(p + 1) \in Int
         /\ Lexeme(p) = Opening => Surplus(p + 1) = Surplus(p) + 1
         /\ Lexeme(p) = Closing => Surplus(p + 1) = Surplus(p) - 1
         /\ Lexeme(p) \notin Braces => Surplus(p + 1) = Surplus(p)
<1>1. p \in Cursor /\ p + 1 \in Cursor /\ Lexeme(p) = tokens[p + 1].lexeme
  BY TokenAt
<1>2. \A l : /\ Count(l, p) \in Nat /\ Count(l, p + 1) \in Nat
             /\ Count(l, p + 1) = Count(l, p) + (IF Lexeme(p) = l THEN 1 ELSE 0)
  BY <1>1, Counting
<1> QED BY <1>2, BraceFacts DEF Surplus

-----------------------------------------------------------------------------
(* The cursor *)

\* A lexeme that opens and closes nothing.
Plain(p) == Lexeme(p) \notin Braces \cup {NoLexeme}

\* Between the cursor and a place there are such lexemes only.
Flat(p) == p \in Cursor /\ p >= pos /\ \A n \in pos .. p : Surplus(n) = Surplus(pos)

\* Keywords, operators and the other lexemes that steer the parser.
Words ==
  TypeKeywords \cup DeclarationKeywords \cup
  {"(", ")", ",", ";", "=", "!", "-", "+", "if", "otherwise", "while", "for", "return"}

LEMMA PlainLexemes ==
  /\ \A l \in Words : l \notin Braces \cup {NoLexeme}
  /\ \A level \in BinaryLevels :
       \A l \in Operators(level) : l \notin Braces \cup {NoLexeme}
BY DEF Words, TypeKeywords, DeclarationKeywords, BinaryLevels, Operators, Braces, NoLexeme

LEMMA FlatHere == TypeOK => Flat(pos)
BY DEF Flat, TypeOK, Cursor

LEMMA FlatStep ==
  ASSUME TypeOK, NEW p \in Nat, Flat(p), Plain(p)
  PROVE  Flat(p + 1)
<1>1. p + 1 \in Cursor /\ pos \in Nat
  BY TokenAt DEF Plain, TypeOK
<1>2. Surplus(p + 1) = Surplus(p)
  BY SurplusStep DEF Plain
<1> QED BY <1>1, <1>2 DEF Flat

\* matchToken moves over no brace but one it is asked for.
LEMMA FlatMatch ==
  ASSUME TypeOK, NEW p \in Nat, Flat(p) PROVE Flat(Match(p, ")"))
<1>1. ")" \notin Braces \cup {NoLexeme}
  BY PlainLexemes DEF Words
<1>2. CASE Lexeme(p) = ")"
  BY <1>1, <1>2, FlatStep DEF Match, Plain
<1>3. CASE Lexeme(p) # ")"
  BY <1>3 DEF Match
<1> QED BY <1>2, <1>3

LEMMA FlatSkip ==
  ASSUME TypeOK, Lexeme(pos) \notin Braces, Lexeme(pos + 1) \notin Braces
  PROVE  Flat(Skip(pos, 2)) /\ Skip(pos, 2) \in Nat
<1>1. pos \in Nat /\ Len(tokens) \in Nat /\ pos <= Len(tokens)
  BY DEF TypeOK
<1>2. CASE AtEnd(pos)
  <2>1. Skip(pos, 2) = pos
    BY <1>1, <1>2 DEF AtEnd, Skip
  <2> QED BY <1>1, <2>1, FlatHere
<1>3. CASE ~AtEnd(pos) /\ AtEnd(pos + 1)
  <2>1. Skip(pos, 2) = pos + 1
    BY <1>1, <1>3 DEF AtEnd, Skip
  <2>2. Plain(pos)
    BY <1>1, <1>3, TokenAt DEF Plain
  <2> QED BY <1>1, <2>1, <2>2, FlatHere, FlatStep
<1>4. CASE ~AtEnd(pos) /\ ~AtEnd(pos + 1)
  <2>1. Skip(pos, 2) = pos + 1 + 1
    BY <1>1, <1>4 DEF AtEnd, Skip
  <2>2. Plain(pos) /\ Plain(pos + 1)
    BY <1>1, <1>4, TokenAt DEF Plain
  <2>3. Flat(pos + 1)
    BY <1>1, <2>2, FlatHere, FlatStep
  <2> QED BY <1>1, <2>1, <2>2, <2>3, FlatStep
<1> QED BY <1>2, <1>3, <1>4

\* The places an action moves the cursor to.
LEMMA FlatAhead ==
  ASSUME TypeOK
  PROVE  /\ Flat(pos)
         /\ Plain(pos) => Flat(pos + 1)
         /\ Plain(pos) /\ Plain(pos + 1) => Flat(pos + 2)
         /\ Plain(pos) /\ Plain(pos + 1) /\ Plain(pos + 2) => Flat(pos + 3)
         /\ Flat(Match(pos, ")"))
         /\ Lexeme(pos) \notin Braces /\ Lexeme(pos + 1) \notin Braces =>
              Flat(Skip(pos, 2)) /\ Flat(Match(Skip(pos, 2), ")"))
<1>1. pos \in Nat /\ pos + 1 \in Nat /\ pos + 2 \in Nat
  BY DEF TypeOK
<1>2. Flat(pos) /\ Flat(Match(pos, ")"))
  BY <1>1, FlatHere, FlatMatch
<1>3. Plain(pos) => Flat(pos + 1)
  BY <1>1, <1>2, FlatStep
<1>4. Plain(pos) /\ Plain(pos + 1) => Flat(pos + 1 + 1)
  BY <1>1, <1>3, FlatStep
<1>5. Plain(pos) /\ Plain(pos + 1) /\ Plain(pos + 2) => Flat(pos + 2 + 1)
  <2>1. pos + 1 + 1 = pos + 2
    BY <1>1
  <2> QED BY <1>1, <1>4, <2>1, FlatStep
<1>6. pos + 1 + 1 = pos + 2 /\ pos + 2 + 1 = pos + 3
  BY <1>1
<1> QED BY <1>2, <1>3, <1>4, <1>5, <1>6, FlatSkip, FlatMatch

\* What is no punctuation.
LEMMA PlainKinds ==
  ASSUME TypeOK, Punctuated, NEW p \in Nat, Kind(p) # "Unknown"
  PROVE  Plain(p)
<1>1. /\ p + 1 \in 1 .. Len(tokens) /\ Lexeme(p) = tokens[p + 1].lexeme
      /\ Lexeme(p) # NoLexeme /\ Kind(p) = tokens[p + 1].kind
  BY TokenAt DEF Cursor
<1> QED BY <1>1 DEF Punctuated, Plain

\* Where a lexeme is read that is not the end, the lexemes before it are none.
LEMMA LexemesBefore ==
  ASSUME TypeOK
  PROVE  /\ Lexeme(pos + 1) # NoLexeme => Lexeme(pos) # NoLexeme
         /\ Lexeme(pos + 2) # NoLexeme => Lexeme(pos + 1) # NoLexeme
         /\ AtEnd(pos) <=> Lexeme(pos) = NoLexeme
<1>1. /\ pos \in Nat /\ pos + 1 \in Nat /\ pos + 2 \in Nat /\ Len(tokens) \in Nat
      /\ pos + 1 + 1 = pos + 2 /\ pos + 2 + 1 = pos + 3
  BY DEF TypeOK
<1>2. /\ AtEnd(pos) => AtEnd(pos + 1)
      /\ AtEnd(pos + 1) => AtEnd(pos + 2)
  BY <1>1 DEF AtEnd
<1>3. \A p \in {pos, pos + 1, pos + 2} : AtEnd(p) <=> Lexeme(p) = NoLexeme
  BY <1>1, TokenAt, LexemeAhead
<1> QED BY <1>2, <1>3

-----------------------------------------------------------------------------
(* The level *)

BlockAt(at) == IF at = "block" THEN 1 ELSE 0

LEMMA OpenInFinite ==
  ASSUME NEW s \in Seq(Frame)
  PROVE  IsFiniteSet(OpenIn(s)) /\ Level(s) \in Nat
<1>1. 1 \in Int /\ Len(s) \in Int /\ OpenIn(s) \in SUBSET (1 .. Len(s))
  BY DEF OpenIn
<1>2. IsFiniteSet(1 .. Len(s))
  BY <1>1, FS_Interval
<1>3. IsFiniteSet(OpenIn(s))
  BY <1>1, <1>2, FS_Subset
<1> QED BY <1>3, FS_CardinalityType DEF Level

\* A frame that is pushed.
LEMMA PushLevel ==
  ASSUME NEW s \in Seq(Frame), NEW at \in Frames, NEW node \in Results,
         NEW t, t = Append(s, [at |-> at, node |-> node])
  PROVE  /\ t \in Seq(Frame) /\ t # <<>>
         /\ Level(t) = Level(s) + BlockAt(at)
<1>1. /\ t \in Seq(Frame) /\ Len(s) \in Nat /\ Len(t) = Len(s) + 1
      /\ \A i \in 1 .. Len(s) : t[i] = s[i]
      /\ t[Len(s) + 1].at = at
  BY PushType
<1>2. CASE at = "block"
  <2>1. OpenIn(t) = OpenIn(s) \cup {Len(s) + 1} /\ Len(s) + 1 \notin OpenIn(s)
    BY <1>1, <1>2 DEF OpenIn
  <2> QED BY <1>1, <1>2, <2>1, OpenInFinite, FS_AddElement DEF BlockAt, Level
<1>3. CASE at # "block"
  <2>1. OpenIn(t) = OpenIn(s)
    BY <1>1, <1>3 DEF OpenIn
  <2> QED BY <1>1, <1>3, <2>1, OpenInFinite DEF BlockAt, Level
<1> QED BY <1>2, <1>3

\* The one on top that is popped.
LEMMA PopLevel ==
  ASSUME TypeOK, stack # <<>>
  PROVE  /\ Popped \in Seq(Frame) /\ Top \in Frame
         /\ Level(stack) = Level(Popped) + BlockAt(Top.at)
<1>1. /\ Popped \in Seq(Frame) /\ Top \in Frame
      /\ Len(Popped) = Len(stack) - 1 /\ Len(stack) \in Nat \ {0}
      /\ \A i \in 1 .. Len(Popped) : Popped[i] = stack[i]
      /\ Top = stack[Len(stack)]
  BY PopType DEF TypeOK, Top
<1>2. CASE Top.at = "block"
  <2>1. /\ OpenIn(stack) = OpenIn(Popped) \cup {Len(stack)}
        /\ Len(stack) \notin OpenIn(Popped)
    BY <1>1, <1>2 DEF OpenIn
  <2>2. IsFiniteSet(OpenIn(Popped))
    BY <1>1, OpenInFinite
  <2>3. Level(stack) = Level(Popped) + 1
    BY <2>1, <2>2, FS_AddElement DEF Level
  <2> QED BY <1>1, <1>2, <2>3 DEF BlockAt, Level
<1>3. CASE Top.at # "block"
  <2>1. OpenIn(stack) = OpenIn(Popped)
    BY <1>1, <1>3 DEF OpenIn
  <2> QED BY <1>1, <1>3, <2>1, OpenInFinite DEF BlockAt, Level
<1> QED BY <1>2, <1>3

\* The control operators keep the frames of parse() at the bottom and change
\* the level by the blocks among the frames they push and pop.
LEMMA WaitLevel ==
  ASSUME TypeOK, RootsAtBottom, NEW at \in Frames, NEW node \in Results, NEW callee,
         WaitAt(at, node, callee), at \in ProgramFrames => stack = <<>>
  PROVE  RootsAtBottom' /\ Level(stack') = Level(stack) + BlockAt(at)
<1>1. stack' = Append(stack, [at |-> at, node |-> node]) /\ stack \in Seq(Frame)
  BY DEF WaitAt, TypeOK
<1>2. Level(stack') = Level(stack) + BlockAt(at)
  BY <1>1, PushLevel DEF Level
<1>3. /\ Len(stack) \in Nat /\ Len(stack') = Len(stack) + 1
      /\ \A i \in 1 .. Len(stack) : stack'[i] = stack[i]
      /\ stack'[Len(stack) + 1].at = at
  BY <1>1, PushType
<1>4. RootsAtBottom'
  BY <1>3, EmptySeq DEF RootsAtBottom
<1> QED BY <1>2, <1>4

LEMMA FinishLevel ==
  ASSUME TypeOK, RootsAtBottom, stack # <<>>, stack' = Popped
  PROVE  /\ RootsAtBottom' /\ Level(stack) = Level(stack') + BlockAt(Top.at)
         /\ Top.at \in ProgramFrames => stack' = <<>>
<1>1. Level(stack) = Level(stack') + BlockAt(Top.at)
  BY PopLevel DEF Level
<1>2. /\ Len(stack) \in Nat \ {0} /\ Len(stack') = Len(stack) - 1
      /\ stack' \in Seq(Frame)
      /\ \A i \in 1 .. Len(stack') : stack'[i] = stack[i]
  BY PopType DEF TypeOK
<1>3. RootsAtBottom'
  BY <1>2 DEF RootsAtBottom
<1>4. Top.at \in ProgramFrames => stack' = <<>>
  BY <1>2, EmptySeq DEF RootsAtBottom, Top
<1> QED BY <1>1, <1>3, <1>4

LEMMA MoveLevel ==
  ASSUME TypeOK, RootsAtBottom, stack # <<>>, NEW at \in Frames, NEW node \in Results,
         stack' = Append(Popped, [at |-> at, node |-> node]),
         at \in ProgramFrames => Top.at \in ProgramFrames
  PROVE  RootsAtBottom' /\ Level(stack') + BlockAt(Top.at) = Level(stack) + BlockAt(at)
<1>1. /\ Popped \in Seq(Frame)
      /\ Level(stack) = Level(Popped) + BlockAt(Top.at)
      /\ Level(Popped) \in Nat
  BY PopLevel, OpenInFinite
<1>2. Level(stack') = Level(Popped) + BlockAt(at)
  BY <1>1, PushLevel DEF Level
<1>3. /\ Len(stack) \in Nat \ {0} /\ Len(Popped) = Len(stack) - 1
      /\ \A i \in 1 .. Len(Popped) : Popped[i] = stack[i]
      /\ Len(stack') = Len(Popped) + 1
      /\ \A i \in 1 .. Len(Popped) : stack'[i] = Popped[i]
      /\ stack'[Len(Popped) + 1].at = at
  BY <1>1, PopType, PushType DEF TypeOK
<1>4. RootsAtBottom'
  BY <1>3 DEF RootsAtBottom, Top
<1>5. BlockAt(at) \in Nat /\ BlockAt(Top.at) \in Nat
  BY DEF BlockAt
<1> QED BY <1>1, <1>2, <1>4, <1>5

-----------------------------------------------------------------------------
(* The balance *)

LEMMA LevelType ==
  ASSUME TypeOK
  PROVE  Level(stack) \in Nat /\ \A callee : Entering(callee) \in {0, 1}
BY OpenInFinite DEF TypeOK, Level, Entering

\* What every step starts from, and what it leaves alone.
Ready ==
  /\ TypeOK /\ TypeOK' /\ TreeInv /\ BraceInv
  /\ UNCHANGED tokens
  /\ Clear' => Clear

LEMMA SurplusKept ==
  ASSUME UNCHANGED tokens
  PROVE  \A n : Surplus(n)' = Surplus(n)
BY DEF Surplus, Count

\* The cursor moves over nothing that opens or closes a block.
LEMMA FlatBalanced ==
  ASSUME Ready, Balanced, NEW p \in Cursor, pos' = p, Flat(p),
         Level(stack') + Entering(call') = Level(stack) + Entering(call),
         call' = "synchronize" => AtEnd(p)
  PROVE  Balanced'
<1>1. pos \in Nat /\ p \in Nat /\ pos \in Cursor /\ p >= pos /\ Surplus(pos) \in Int
  BY SurplusIsInt DEF Ready, TypeOK, Cursor, Flat
<1>2. \A n \in 0 .. p : Surplus(n) >= 0
  BY <1>1 DEF Flat, Balanced
<1>3. Surplus(p) = Level(stack') + Entering(call')
  BY <1>1 DEF Flat, Balanced
<1>4. \A n : Surplus(n)' = Surplus(n)
  BY SurplusKept DEF Ready
<1>5. call' = "synchronize" => AtEnd(pos)'
  BY DEF AtEnd, Ready
<1> QED BY <1>2, <1>3, <1>4, <1>5 DEF Balanced

\* It moves over the brace that opens a block.
LEMMA OpenBalanced ==
  ASSUME Ready, Balanced, NEW p \in Cursor, Lexeme(p) = Opening, pos' = p + 1, Flat(p),
         Level(stack') + Entering(call') = Level(stack) + Entering(call) + 1,
         call' # "synchronize"
  PROVE  Balanced'
<1>1. pos \in Nat /\ p \in Nat /\ pos \in Cursor /\ p >= pos /\ Surplus(pos) \in Int
  BY SurplusIsInt DEF Ready, TypeOK, Cursor, Flat
<1>2. Surplus(p) = Surplus(pos) /\ Surplus(p + 1) = Surplus(p) + 1
  BY <1>1, SurplusStep, BraceFacts DEF Flat, Ready
<1>3. \A n \in 0 .. p + 1 : Surplus(n) >= 0
  BY <1>1, <1>2 DEF Flat, Balanced
<1>4. Surplus(p + 1) = Level(stack') + Entering(call')
  BY <1>1, <1>2 DEF Balanced
<1>5. \A n : Surplus(n)' = Surplus(n)
  BY SurplusKept DEF Ready
<1> QED BY <1>3, <1>4, <1>5 DEF Balanced

\* It moves over the brace that closes one: there is one to be closed.
LEMMA CloseBalanced ==
  ASSUME Ready, Balanced, Lexeme(pos) = Closing, pos' = pos + 1,
         Level(stack') + Entering(call') + 1 = Level(stack) + Entering(call),
         call' # "synchronize"
  PROVE  Balanced'
<1>1. pos \in Nat /\ pos \in Cursor /\ Surplus(pos) \in Int
  BY SurplusIsInt DEF Ready, TypeOK, Cursor
<1>2. Surplus(pos + 1) = Surplus(pos) - 1
  BY <1>1, SurplusStep, BraceFacts DEF Ready
<1>3. Level(stack') \in Nat /\ Entering(call') \in {0, 1}
  BY OpenInFinite DEF Ready, TypeOK, Level, Entering
<1>4. Surplus(pos + 1) = Level(stack') + Entering(call')
  BY <1>1, <1>2, <1>3 DEF Balanced
<1>5. \A n \in 0 .. pos + 1 : Surplus(n) >= 0
  BY <1>1, <1>3, <1>4 DEF Balanced
<1>6. \A n : Surplus(n)' = Surplus(n)
  BY SurplusKept DEF Ready
<1> QED BY <1>4, <1>5, <1>6 DEF Balanced

-----------------------------------------------------------------------------
(* The steps *)

\* No action changes the source, and no name is forgotten.
LEMMA SourceKept ==
  ASSUME Next PROVE UNCHANGED tokens /\ names \subseteq names'
<1>1. CASE FunctionNext
  BY <1>1 DEF FunctionNext, ProgramLoop, ProgramAddFunction,
     ProgramRetryAsStatement, ProgramAfterStatement, Recover, Synchronize,
     FunctionHeader, Parameter, ParameterListEnd, FunctionBody, Quiet
<1>2. CASE StatementNext
  BY <1>2 DEF StatementNext, BlockStart, BlockStatement, BlockAdd, BlockEnd,
     StatementAtEnd, NestedBlock, BodyDone, IfStart, HeaderStart, IfCondition,
     HeaderEnd, Missing, IfThen, WhileStart, WhileCondition, ForStart,
     ForInit, ForDeclaration, ForCondition, ForIncrement, ReturnStart,
     DeclarationKeyword, DeclarationLike, TypedDeclaration,
     ExpressionThenSemicolon, Expect, AssignmentStart, AssignmentEnd,
     ExpressionStatementStart, ExpressionStatementEnd, Quiet
<1>3. CASE ExpressionNext
  BY <1>3 DEF ExpressionNext, Descend, AssignmentTarget, AssignmentValue,
     BinaryOperand, UnaryStart, UnaryEnd, CallCallee, CallArgument, Primary,
     ParenEnd, Expect, Missing, Quiet
<1>4. CASE Terminated
  BY <1>4 DEF Terminated, vars
<1> QED BY <1>1, <1>2, <1>3, <1>4 DEF Next

\* What starts with neither parse nor a block.
Inner == Calls \ (Outer \cup {"parseBlock", "synchronize"})

InnerFrames == Frames \ (ProgramFrames \cup {"block"})

\* Most steps open and close no block.
Leveled == RootsAtBottom' /\ Level(stack') = Level(stack)

LEMMA WaitLeveled ==
  ASSUME Ready, NEW at \in InnerFrames, NEW node \in Results, NEW callee,
         WaitAt(at, node, callee)
  PROVE  Leveled /\ call' = callee
<1>1. at \in Frames /\ at \notin ProgramFrames /\ BlockAt(at) = 0
  BY DEF InnerFrames, BlockAt
<1>2. RootsAtBottom' /\ Level(stack') = Level(stack) + BlockAt(at)
  BY <1>1, WaitLevel DEF Ready, BraceInv, Grounded
<1> QED BY <1>1, <1>2, LevelType DEF Leveled, WaitAt, Ready

LEMMA MoveLeveled ==
  ASSUME Ready, stack # <<>>, Top.at \in InnerFrames, NEW at \in InnerFrames,
         NEW node \in Results, NEW callee, MoveTo(at, node, callee)
  PROVE  Leveled /\ call' = callee
<1>1. /\ at \in Frames /\ at \notin ProgramFrames
      /\ BlockAt(at) = 0 /\ BlockAt(Top.at) = 0
  BY DEF InnerFrames, BlockAt
<1>2. RootsAtBottom' /\ Level(stack') + BlockAt(Top.at) = Level(stack) + BlockAt(at)
  BY <1>1, MoveLevel DEF Ready, BraceInv, Grounded, MoveTo
<1>3. Level(stack) \in Nat /\ Level(stack') \in Nat
  BY OpenInFinite DEF Ready, TypeOK, Level
<1>4. Level(stack') = Level(stack)
  BY <1>1, <1>2, <1>3
<1> QED BY <1>2, <1>4 DEF Leveled, MoveTo

LEMMA FinishLeveled ==
  ASSUME Ready, stack # <<>>, Top.at \in InnerFrames, NEW node, Finish(node)
  PROVE  Leveled /\ call' = "return"
<1>1. BlockAt(Top.at) = 0
  BY DEF InnerFrames, BlockAt
<1>2. RootsAtBottom' /\ Level(stack) = Level(stack') + BlockAt(Top.at)
  BY FinishLevel DEF Ready, BraceInv, Grounded, Finish
<1>3. Level(stack) \in Nat /\ Level(stack') \in Nat
  BY OpenInFinite DEF Ready, TypeOK, Level
<1>4. Level(stack') = Level(stack)
  BY <1>1, <1>2, <1>3
<1> QED BY <1>2, <1>4 DEF Leveled, Finish

LEMMA TailLeveled ==
  ASSUME Ready, UNCHANGED stack
  PROVE  Leveled
BY DEF Ready, BraceInv, Grounded, RootsAtBottom, Leveled, Level, OpenIn

LEMMA CallMadeLeveled ==
  ASSUME Ready, stack # <<>>, Top.at \in InnerFrames, NEW node, CallMade(node)
  PROVE  Leveled /\ call' = "return"
<1>1. /\ "parseCall" \in InnerFrames /\ NoNode \in Results
  BY NodeTypes DEF InnerFrames, Frames, ExpressionFrames, Levels, ProgramFrames
<1>2. /\ BlockAt("parseCall") = 0 /\ BlockAt(Top.at) = 0
      /\ "parseCall" \in Frames /\ "parseCall" \notin ProgramFrames
  BY <1>1 DEF InnerFrames, BlockAt
<1>3. /\ RootsAtBottom'
      /\ Level(stack') + BlockAt(Top.at) = Level(stack) + BlockAt("parseCall")
  BY <1>1, <1>2, MoveLevel DEF Ready, BraceInv, Grounded, CallMade
<1>4. Level(stack) \in Nat /\ Level(stack') \in Nat
  BY OpenInFinite DEF Ready, TypeOK, Level
<1>5. Level(stack') = Level(stack)
  BY <1>2, <1>3, <1>4
<1> QED BY <1>3, <1>5 DEF Leveled, CallMade

\* A step between functions that open no block.
LEMMA StepFlat ==
  ASSUME Ready, Leveled, call # "parseBlock", call' \in Inner,
         Clear' => Flat(pos')
  PROVE  BraceInv'
<1>1. Punctuated'
  BY DEF Ready, BraceInv, Punctuated
<1>2. Grounded'
  BY DEF Leveled, Grounded, Inner, Outer
<1>3. ASSUME Clear' PROVE Balanced'
  <2>1. Entering(call) = 0 /\ Entering(call') = 0 /\ call' # "synchronize"
    BY DEF Entering, Inner
  <2>2. Level(stack') + Entering(call') = Level(stack) + Entering(call)
    BY <2>1 DEF Leveled
  <2>3. Clear /\ Balanced /\ Flat(pos') /\ pos' \in Cursor
    BY <1>3 DEF Ready, BraceInv, Flat
  <2> QED BY <2>1, <2>2, <2>3, FlatBalanced
<1> QED BY <1>1, <1>2, <1>3 DEF BraceInv

\* A step to a body, whose brace is consumed with the call of parseBlock.
LEMMA StepToBody ==
  ASSUME Ready, Leveled, call # "parseBlock", NEW p, Clear' => Flat(p),
         pos' = Match(p, Opening), call' = Body(p)
  PROVE  BraceInv'
<1>1. CASE Lexeme(p) = Opening
  <2>1. call' = "parseBlock" /\ pos' = p + 1
    BY <1>1 DEF Body, Match, Opening
  <2>2. Punctuated'
    BY DEF Ready, BraceInv, Punctuated
  <2>3. Grounded'
    BY <2>1 DEF Leveled, Grounded, Outer
  <2>4. ASSUME Clear' PROVE Balanced'
    <3>1. Entering(call) = 0 /\ Entering(call') = 1 /\ call' # "synchronize"
      BY <2>1 DEF Entering
    <3>2. Level(stack) \in Nat
      BY LevelType DEF Ready
    <3>3. Level(stack') + Entering(call') = Level(stack) + Entering(call) + 1
      BY <3>1, <3>2 DEF Leveled
    <3>4. Clear /\ Balanced /\ Flat(p) /\ p \in Cursor
      BY <2>4 DEF Ready, BraceInv, Flat
    <3> QED BY <1>1, <2>1, <3>1, <3>3, <3>4, OpenBalanced
  <2> QED BY <2>2, <2>3, <2>4 DEF BraceInv
<1>2. CASE Lexeme(p) # Opening
  <2>1. call' = "parseStatement"
    BY <1>2 DEF Body, Opening
  <2>2. pos' = p
    BY <1>2 DEF Match
  <2>3. call' \in Inner
    BY <2>1 DEF Inner, Outer, Calls
  <2> QED BY <2>2, <2>3, StepFlat
<1> QED BY <1>1, <1>2

LEMMA WaitFlat ==
  ASSUME Ready, NEW at \in InnerFrames, NEW node \in Results, NEW callee \in Inner,
         WaitAt(at, node, callee), call # "parseBlock", Clear' => Flat(pos')
  PROVE  BraceInv'
BY WaitLeveled, StepFlat

LEMMA MoveFlat ==
  ASSUME Ready, stack # <<>>, Top.at \in InnerFrames, NEW at \in InnerFrames,
         NEW node \in Results, NEW callee \in Inner, MoveTo(at, node, callee),
         call # "parseBlock", Clear' => Flat(pos')
  PROVE  BraceInv'
BY MoveLeveled, StepFlat

LEMMA TailFlat ==
  ASSUME Ready, NEW callee \in Inner, TailCall(callee), call # "parseBlock",
         Clear' => Flat(pos')
  PROVE  BraceInv'
BY TailLeveled, StepFlat DEF TailCall

LEMMA ReturnFlat ==
  ASSUME Ready, NEW node, Return(node), call # "parseBlock", Clear' => Flat(pos')
  PROVE  BraceInv'
<1>1. "return" \in Inner
  BY DEF Inner, Calls, Outer
<1> QED BY <1>1, TailLeveled, StepFlat DEF Return

LEMMA FinishFlat ==
  ASSUME Ready, stack # <<>>, Top.at \in InnerFrames, NEW node, Finish(node),
         call # "parseBlock", Clear' => Flat(pos')
  PROVE  BraceInv'
<1>1. "return" \in Inner
  BY DEF Inner, Calls, Outer
<1> QED BY <1>1, FinishLeveled, StepFlat

LEMMA CallMadeFlat ==
  ASSUME Ready, stack # <<>>, Top.at \in InnerFrames, NEW node, CallMade(node),
         call # "parseBlock", Clear' => Flat(pos')
  PROVE  BraceInv'
<1>1. "return" \in Inner
  BY DEF Inner, Calls, Outer
<1> QED BY <1>1, CallMadeLeveled, StepFlat

\* The functions that open no block by being called ...
LEMMA InnerCalls ==
  /\ {"parseStatement", "parseParameterList", "parseFunctionBody",
      "parseDeclarationLike", "parseExpression", "parseUnary", "parseCall",
      "parsePrimary", "return"} \subseteq Inner
  /\ \A level \in Levels : /\ level # "parseBlock" /\ level \in InnerFrames
                           /\ Operand(level) \in Inner
  /\ \A p, stop : Optional(p, stop) \in Inner
<1>1. {"parseStatement", "parseParameterList", "parseFunctionBody",
       "parseDeclarationLike", "parseExpression", "parseUnary", "parseCall",
       "parsePrimary", "return"} \subseteq Inner
  BY DEF Inner, Outer, Calls, Levels
<1>2. \A level \in Levels :
        level # "parseBlock" /\ level \notin ProgramFrames \cup {"block"}
  BY DEF Levels, BinaryLevels, ProgramFrames
<1>3. \A level \in Levels : Operand(level) \in Inner
  BY DEF Levels, BinaryLevels, Operand, Inner, Outer, Calls
<1> QED BY <1>1, <1>2, <1>3, LevelTypes DEF Optional, InnerFrames

\* ... and the places in them.
LEMMA InnerPlaces ==
  { "function body", "if condition", "if then", "if else", "while condition",
    "while body", "for declaration", "for init", "for condition",
    "for increment", "for body", "return", "declaration", "typed declaration",
    "assignment", "expression", "parseExpression", "assignment value", "unary",
    "parseCall", "call argument", "paren" } \subseteq InnerFrames
BY DEF InnerFrames, ProgramFrames, Frames, ExpressionFrames, StatementFrames, Levels

LEMMA PlainWords ==
  /\ \A p : Lexeme(p) \in Words => Plain(p)
  /\ {"(", ")", ",", ";", "=", "!", "-", "+", "if", "otherwise", "while", "for",
      "return"} \subseteq Words
  /\ TypeKeywords \subseteq Words /\ DeclarationKeywords \subseteq Words
  /\ \A p : \A level \in BinaryLevels : Lexeme(p) \in Operators(level) => Plain(p)
BY PlainLexemes DEF Plain, Words

-----------------------------------------------------------------------------
(* One step per action *)

\* The expressions open and close no block ...
LEMMA ExpressionNextBraces ==
  ASSUME Ready, ExpressionNext
  PROVE  BraceInv'
<1>1. CASE Descend
  <2>1. Clear' => Flat(pos')
    BY <1>1, FlatAhead DEF Descend, Consume, Ready
  <2> QED BY <1>1, <2>1, WaitFlat, InnerCalls, NodeTypes DEF Descend
<1>2. CASE AssignmentTarget
  <2>1. Clear' => Flat(pos')
    BY <1>2, FlatAhead, PlainWords DEF AssignmentTarget, Consume, Ready
  <2>2. ret \in Results
    BY DEF Ready, TypeOK, Results
  <2> QED BY <1>2, <2>1, <2>2, MoveFlat, FinishFlat, InnerCalls, InnerPlaces
          DEF AssignmentTarget, Returned
<1>3. CASE AssignmentValue
  <2>1. Clear' => Flat(pos')
    BY <1>3, FlatAhead DEF AssignmentValue, Consume, Fail, Ready
  <2> QED BY <1>3, <2>1, FinishFlat, InnerPlaces DEF AssignmentValue, Returned
<1>4. CASE BinaryOperand
  <2>1. PICK at \in BinaryLevels :
          /\ Returned(at)
          /\ \E left \in Results :
               \/ /\ Lexeme(pos) \in Operators(at) /\ Consume(pos + 1)
                  /\ MoveTo(at, left, Operand(at))
               \/ Consume(pos) /\ Finish(left)
    <3>1. ret \in Results
      BY DEF Ready, TypeOK, Results
    <3> QED BY <1>4, <3>1, NodeTypes, MakeNodeType DEF BinaryOperand
  <2>2. Clear' => Flat(pos')
    BY <2>1, FlatAhead, PlainWords DEF Consume, Ready
  <2>3. /\ stack # <<>> /\ Top.at = at /\ call # "parseBlock"
        /\ at \in InnerFrames /\ Operand(at) \in Inner
    BY <2>1, InnerCalls DEF Returned, Levels
  <2> QED BY <2>1, <2>2, <2>3, MoveFlat, FinishFlat
<1>5. CASE UnaryStart
  <2>1. Clear' => Flat(pos')
    BY <1>5, FlatAhead, PlainWords DEF UnaryStart, Consume, Ready
  <2> QED BY <1>5, <2>1, WaitFlat, TailFlat, InnerCalls, InnerPlaces, NodeTypes
          DEF UnaryStart
<1>6. CASE UnaryEnd
  <2>1. Clear' => Flat(pos')
    BY <1>6, FlatAhead DEF UnaryEnd, Consume, Ready
  <2> QED BY <1>6, <2>1, FinishFlat, InnerPlaces DEF UnaryEnd, Returned
<1>7. CASE CallCallee
  <2>1. Clear' => Flat(pos')
    BY <1>7, FlatAhead, PlainWords DEF CallCallee, Consume, Ready
  <2> QED BY <1>7, <2>1, MoveFlat, ReturnFlat, FinishFlat, InnerCalls, InnerPlaces,
             NodeTypes, MakeNodeType
          DEF CallCallee, Returned
<1>8. CASE CallArgument
  <2>1. Clear' => Flat(pos')
    BY <1>8, FlatAhead, PlainWords DEF CallArgument, Consume, Fail, Clear, Ready
  <2> QED BY <1>8, <2>1, MoveFlat, CallMadeFlat, InnerCalls, InnerPlaces,
             NodeTypes, MakeNodeType
          DEF CallArgument, Returned
<1>9. CASE Primary
  <2>1. Kind(pos) # "Unknown" => Plain(pos)
    BY PlainKinds DEF Ready, BraceInv, TypeOK
  <2>2. Clear' => Flat(pos')
    BY <1>9, <2>1, FlatAhead, PlainWords DEF Primary, Consume, Fail, Clear, Ready
  <2> QED BY <1>9, <2>2, WaitFlat, ReturnFlat, InnerCalls, InnerPlaces, NodeTypes
          DEF Primary
<1>10. CASE ParenEnd
  <2>1. Clear' => Flat(pos')
    BY <1>10, FlatAhead, PlainWords
    DEF ParenEnd, Expect, Missing, Consume, Fail, Clear, Ready
  <2> QED BY <1>10, <2>1, FinishFlat, InnerPlaces
          DEF ParenEnd, Expect, Missing, Returned
<1> QED BY <1>1, <1>2, <1>3, <1>4, <1>5, <1>6, <1>7, <1>8, <1>9, <1>10
  DEF ExpressionNext

\* A statement's header leads to its body, or an error.
LEMMA HeaderBraces ==
  ASSUME Ready, NEW at \in InnerFrames, NEW next \in InnerFrames,
         NEW node \in Results, HeaderEnd(at, next, node)
  PROVE  BraceInv'
<1>1. stack # <<>> /\ Top.at = at /\ call # "parseBlock"
  BY DEF HeaderEnd, Returned
<1>2. \/ /\ Lexeme(pos) = ")" /\ pos' = Match(pos + 1, Opening)
         /\ MoveTo(next, node, Body(pos + 1))
      \/ Missing(")")
  BY DEF HeaderEnd, Opening, Consume
<1>3. CASE /\ Lexeme(pos) = ")" /\ pos' = Match(pos + 1, Opening)
           /\ MoveTo(next, node, Body(pos + 1))
  <2>1. Flat(pos + 1)
    BY <1>3, FlatAhead, PlainWords DEF Ready
  <2> QED BY <1>1, <1>3, <2>1, MoveLeveled, StepToBody
<1>4. CASE Missing(")")
  BY <1>1, <1>4, FinishFlat DEF Missing, Fail, Clear
<1> QED BY <1>2, <1>3, <1>4

\* parseBlock opens one block and closes it.
LEMMA BlockStartBraces ==
  ASSUME Ready, BlockStart
  PROVE  BraceInv'
<1>1. /\ "block" \in Frames /\ "block" \notin ProgramFrames /\ "node" \in Results
      /\ BlockAt("block") = 1
  BY NodeTypes DEF Frames, StatementFrames, ProgramFrames, BlockAt
<1>2. /\ call = "parseBlock" /\ WaitAt("block", "node", "return") /\ pos' = pos
      /\ call' = "return"
  BY DEF BlockStart, Consume, WaitAt
<1>3. RootsAtBottom' /\ Level(stack') = Level(stack) + 1
  BY <1>1, <1>2, WaitLevel DEF Ready, BraceInv, Grounded
<1>4. Punctuated' /\ Grounded'
  BY <1>2, <1>3 DEF Ready, BraceInv, Punctuated, Grounded
<1>5. ASSUME Clear' PROVE Balanced'
  <2>1. Entering(call) = 1 /\ Entering(call') = 0 /\ call' # "synchronize"
    BY <1>2 DEF Entering
  <2>2. Level(stack') + Entering(call') = Level(stack) + Entering(call)
    BY <1>3, <2>1, LevelType DEF Ready
  <2>3. Flat(pos) /\ pos \in Cursor /\ Balanced
    BY <1>5, FlatHere DEF Ready, BraceInv, Flat
  <2> QED BY <1>2, <2>1, <2>2, <2>3, FlatBalanced
<1> QED BY <1>4, <1>5 DEF BraceInv

LEMMA BlockEndBraces ==
  ASSUME Ready, BlockEnd
  PROVE  BraceInv'
<1>1. /\ stack # <<>> /\ Top.at = "block" /\ call = "return" /\ call' = "return"
      /\ stack' = Popped /\ BlockAt("block") = 1
  BY DEF BlockEnd, Returned, Finish, BlockAt
<1>2. (Lexeme(pos) = Closing /\ pos' = pos + 1) \/ hadError'
  BY DEF BlockEnd, Closing, Consume, Fail
<1>3. RootsAtBottom' /\ Level(stack) = Level(stack') + BlockAt(Top.at)
  BY <1>1, FinishLevel DEF Ready, BraceInv, Grounded
<1>4. Punctuated' /\ Grounded'
  BY <1>1, <1>3 DEF Ready, BraceInv, Punctuated, Grounded
<1>5. ASSUME Clear' PROVE Balanced'
  <2>1. Entering(call) = 0 /\ Entering(call') = 0 /\ call' # "synchronize"
    BY <1>1 DEF Entering
  <2>2. Level(stack') \in Nat /\ Level(stack) = Level(stack') + 1
    BY <1>1, <1>3, OpenInFinite DEF Ready, TypeOK
  <2>3. Level(stack') + Entering(call') + 1 = Level(stack) + Entering(call)
    BY <2>1, <2>2
  <2>4. Lexeme(pos) = Closing /\ pos' = pos + 1 /\ Balanced
    BY <1>2, <1>5 DEF Ready, BraceInv, Clear
  <2> QED BY <2>1, <2>3, <2>4, CloseBalanced
<1> QED BY <1>4, <1>5 DEF BraceInv

\* ... the statements only the blocks they parse ...
LEMMA StatementNextBraces ==
  ASSUME Ready, StatementNext
  PROVE  BraceInv'
<1>1. CASE BlockStart
  BY <1>1, BlockStartBraces
<1>2. CASE BlockStatement
  <2>1. TailCall("parseStatement") /\ call = "return" /\ pos' = pos
    BY <1>2 DEF BlockStatement, Returned, Consume
  <2> QED BY <2>1, TailFlat, FlatHere, InnerCalls DEF Ready
<1>3. CASE BlockAdd
  <2>1. /\ stack # <<>> /\ Top.at = "block" /\ call = "return" /\ call' = "return"
        /\ pos' = pos
        /\ \E node \in Results : stack' = Append(Popped, [at |-> "block", node |-> node])
    BY <1>3, NodeTypes, MakeNodeType DEF BlockAdd, Returned, Consume, MoveTo
  <2>2. "block" \in Frames /\ "block" \notin ProgramFrames
    BY DEF Frames, StatementFrames, ProgramFrames
  <2>3. /\ RootsAtBottom'
        /\ Level(stack') + BlockAt("block") = Level(stack) + BlockAt("block")
    BY <2>1, <2>2, MoveLevel DEF Ready, BraceInv, Grounded
  <2>4. Level(stack) \in Nat /\ Level(stack') \in Nat /\ BlockAt("block") = 1
    BY OpenInFinite DEF Ready, TypeOK, BlockAt
  <2>5. Leveled
    BY <2>3, <2>4 DEF Leveled
  <2> QED BY <2>1, <2>5, StepFlat, FlatHere, InnerCalls DEF Ready
<1>4. CASE BlockEnd
  BY <1>4, BlockEndBraces
<1>5. CASE StatementAtEnd
  <2>1. Clear' => Flat(pos')
    BY <1>5, FlatAhead
    DEF StatementAtEnd, Consume, Ready
  <2> QED BY <1>5, <2>1, ReturnFlat
          DEF StatementAtEnd
<1>6. CASE NestedBlock
  <2>1. /\ call = "parseStatement" /\ Lexeme(pos) = Opening /\ UNCHANGED stack
        /\ call' = Body(pos) /\ pos' = Match(pos, Opening)
    BY <1>6 DEF NestedBlock, TailCall, Consume, Body, Match, Opening
  <2> QED BY <2>1, TailLeveled, StepToBody, FlatHere DEF Ready
<1>7. CASE BodyDone
  <2>1. Clear' => Flat(pos')
    BY <1>7, FlatAhead
    DEF BodyDone, Consume, Ready
  <2> QED BY <1>7, <2>1, FinishFlat, InnerPlaces
          DEF BodyDone, Returned
<1>8. CASE IfStart
  <2>1. Clear' => Flat(pos')
    BY <1>8, FlatAhead, PlainWords
    DEF IfStart, HeaderStart, Consume, Fail, Clear, Ready
  <2> QED BY <1>8, <2>1, WaitFlat, ReturnFlat, InnerCalls, InnerPlaces,
             NodeTypes
          DEF IfStart, HeaderStart
<1>9. CASE IfCondition
  BY <1>9, HeaderBraces, InnerPlaces, NodeTypes, MakeNodeType DEF IfCondition
<1>10. CASE IfThen
  <2>1. /\ stack # <<>> /\ Top.at = "if then" /\ call = "return"
        /\ "if then" \in InnerFrames /\ "if else" \in InnerFrames
    BY <1>10, InnerPlaces DEF IfThen, Returned
  <2>2. PICK node \in Results :
          \/ /\ Lexeme(pos) = "otherwise" /\ pos' = Match(pos + 1, Opening)
             /\ MoveTo("if else", node, Body(pos + 1))
          \/ pos' = pos /\ Finish(node)
    BY <1>10, NodeTypes, MakeNodeType DEF IfThen, Opening, Consume
  <2>3. CASE /\ Lexeme(pos) = "otherwise" /\ pos' = Match(pos + 1, Opening)
             /\ MoveTo("if else", node, Body(pos + 1))
    <3>1. Flat(pos + 1)
      BY <2>3, FlatAhead, PlainWords DEF Ready
    <3> QED BY <2>1, <2>3, <3>1, MoveLeveled, StepToBody
  <2>4. CASE pos' = pos /\ Finish(node)
    BY <2>1, <2>4, FinishFlat, FlatHere DEF Ready
  <2> QED BY <2>2, <2>3, <2>4
<1>11. CASE WhileStart
  <2>1. Clear' => Flat(pos')
    BY <1>11, FlatAhead, PlainWords
    DEF WhileStart, HeaderStart, Consume, Fail, Clear, Ready
  <2> QED BY <1>11, <2>1, WaitFlat, ReturnFlat, InnerCalls, InnerPlaces,
             NodeTypes
          DEF WhileStart, HeaderStart
<1>12. CASE WhileCondition
  BY <1>12, HeaderBraces, InnerPlaces, NodeTypes, MakeNodeType DEF WhileCondition
<1>13. CASE ForStart
  <2>1. Clear' => Flat(pos')
    BY <1>13, FlatAhead, PlainWords
    DEF ForStart, Consume, Fail, Clear, Ready
  <2> QED BY <1>13, <2>1, WaitFlat, ReturnFlat, InnerCalls, InnerPlaces,
             NodeTypes
          DEF ForStart
<1>14. CASE ForInit
  <2>1. Clear' => Flat(pos')
    BY <1>14, FlatAhead, PlainWords
    DEF ForInit, Missing, Consume, Fail, Clear, Ready
  <2> QED BY <1>14, <2>1, MoveFlat, FinishFlat, InnerCalls, InnerPlaces,
             NodeTypes, MakeNodeType
          DEF ForInit, Missing, Returned
<1>15. CASE ForDeclaration
  <2>1. Clear' => Flat(pos')
    BY <1>15, FlatAhead
    DEF ForDeclaration, Consume, Ready
  <2> QED BY <1>15, <2>1, MoveFlat, InnerCalls, InnerPlaces, NodeTypes,
             MakeNodeType
          DEF ForDeclaration, Returned
<1>16. CASE ForCondition
  <2>1. Clear' => Flat(pos')
    BY <1>16, FlatAhead, PlainWords
    DEF ForCondition, Missing, Consume, Fail, Clear, Ready
  <2> QED BY <1>16, <2>1, MoveFlat, FinishFlat, InnerCalls, InnerPlaces,
             NodeTypes, MakeNodeType
          DEF ForCondition, Missing, Returned
<1>17. CASE ForIncrement
  BY <1>17, HeaderBraces, InnerPlaces, NodeTypes, MakeNodeType DEF ForIncrement
<1>18. CASE ReturnStart
  <2>1. Clear' => Flat(pos')
    BY <1>18, FlatAhead, PlainWords
    DEF ReturnStart, Consume, Ready
  <2> QED BY <1>18, <2>1, WaitFlat, ReturnFlat, InnerCalls, InnerPlaces,
             NodeTypes
          DEF ReturnStart
<1>19. CASE DeclarationKeyword
  <2>1. Clear' => Flat(pos')
    BY <1>19, FlatAhead, PlainWords
    DEF DeclarationKeyword, Consume, Ready
  <2> QED BY <1>19, <2>1, TailFlat, InnerCalls
          DEF DeclarationKeyword
<1>20. CASE DeclarationLike
  <2>1. Clear' => Flat(pos')
    <3> SUFFICES ASSUME Clear' PROVE Flat(pos')
      OBVIOUS
    <3> DEFINE p == IF Lexeme(pos + 1) \in {NoLexeme, "=", ";"} THEN pos + 1
                   ELSE pos + 2
    <3>1. /\ Lexeme(p) = "=" /\ pos' = p + 1
          /\ Lexeme(pos) \notin Braces /\ Lexeme(p - 1) \notin Braces
      BY <1>20 DEF DeclarationLike, Consume, Fail, Clear
    <3>2. pos \in Nat /\ pos + 1 - 1 = pos /\ pos + 2 - 1 = pos + 1
      BY DEF Ready, TypeOK
    <3>3. p = pos + 1 \/ p = pos + 2
      OBVIOUS
    <3> HIDE DEF p
    <3>4. CASE p = pos + 1
      <4>1. Lexeme(pos) \notin Braces /\ Lexeme(pos + 1) = "=" /\ pos' = pos + 2
        BY <3>1, <3>2, <3>4
      <4>2. Plain(pos + 1) /\ Plain(pos)
        BY <4>1, LexemesBefore, PlainWords DEF Ready, Plain
      <4> QED BY <4>1, <4>2, FlatAhead DEF Ready
    <3>5. CASE p = pos + 2
      <4>1. /\ Lexeme(pos) \notin Braces /\ Lexeme(pos + 1) \notin Braces
            /\ Lexeme(pos + 2) = "=" /\ pos' = pos + 3
        BY <3>1, <3>2, <3>5
      <4>2. Plain(pos + 2) /\ Plain(pos + 1) /\ Plain(pos)
        BY <4>1, LexemesBefore, PlainWords DEF Ready, Plain
      <4> QED BY <4>1, <4>2, FlatAhead DEF Ready
    <3> QED BY <3>3, <3>4, <3>5
  <2> QED BY <1>20, <2>1, WaitFlat, ReturnFlat, InnerCalls, InnerPlaces, NodeTypes
          DEF DeclarationLike
<1>21. CASE TypedDeclaration
  <2>1. Clear' => Flat(pos')
    BY <1>21, FlatAhead, PlainWords, LexemesBefore
    DEF TypedDeclaration, Consume, Fail, Clear, Plain, Ready
  <2> QED BY <1>21, <2>1, WaitFlat, ReturnFlat, InnerCalls, InnerPlaces,
             NodeTypes
          DEF TypedDeclaration
<1>22. CASE ExpressionThenSemicolon
  <2>1. Clear' => Flat(pos')
    BY <1>22, FlatAhead, PlainWords
    DEF ExpressionThenSemicolon, Expect, Missing, Consume, Fail, Clear, Ready
  <2> QED BY <1>22, <2>1, FinishFlat, InnerPlaces
          DEF ExpressionThenSemicolon, Expect, Missing, Returned
<1>23. CASE AssignmentStart
  <2>1. Plain(pos) /\ Plain(pos + 1) /\ pos' = pos + 2
    <3>1. Kind(pos) # "Unknown" /\ Lexeme(pos + 1) = "=" /\ pos' = pos + 2
      BY <1>23 DEF AssignmentStart, IsAssignment, Consume
    <3>2. pos \in Nat
      BY DEF Ready, TypeOK
    <3> QED BY <3>1, <3>2, PlainKinds, PlainWords DEF Ready, BraceInv
  <2>2. Flat(pos')
    BY <2>1, FlatAhead DEF Ready
  <2> QED BY <1>23, <2>2, WaitFlat, InnerCalls, InnerPlaces, NodeTypes
          DEF AssignmentStart
<1>24. CASE AssignmentEnd
  <2>1. Clear' => Flat(pos')
    BY <1>24, FlatAhead, PlainWords
    DEF AssignmentEnd, Expect, Missing, Consume, Fail, Clear, Ready
  <2> QED BY <1>24, <2>1, FinishFlat, InnerPlaces
          DEF AssignmentEnd, Expect, Missing, Returned
<1>25. CASE ExpressionStatementStart
  <2>1. Clear' => Flat(pos')
    BY <1>25, FlatAhead
    DEF ExpressionStatementStart, Consume, Ready
  <2> QED BY <1>25, <2>1, WaitFlat, InnerCalls, InnerPlaces, NodeTypes
          DEF ExpressionStatementStart
<1>26. CASE ExpressionStatementEnd
  <2>1. Clear' => Flat(pos')
    BY <1>26, FlatAhead, PlainWords
    DEF ExpressionStatementEnd, Expect, Missing, Consume, Fail, Clear, Ready
  <2> QED BY <1>26, <2>1, FinishFlat, InnerPlaces
          DEF ExpressionStatementEnd, Expect, Missing, Returned
<1> QED BY <1>1, <1>2, <1>3, <1>4, <1>5, <1>6, <1>7, <1>8, <1>9, <1>10, <1>11,
        <1>12, <1>13, <1>14, <1>15, <1>16, <1>17, <1>18, <1>19, <1>20, <1>21,
        <1>22, <1>23, <1>24, <1>25, <1>26
  DEF StatementNext

\* A step of parse and of the recovery from an error.
LEMMA ProgramSteps ==
  ASSUME Ready, Leveled, call # "parseBlock", call' # "parseBlock",
         call' \in {"parse", "done"} => stack' = <<>>,
         call' = "done" => AtEnd(pos)',
         call' = "parseFunction" => Lexeme(pos)' \in TypeKeywords,
         Clear' => pos' = pos,
         Clear' /\ call' = "synchronize" => AtEnd(pos)
  PROVE  BraceInv'
<1>1. Punctuated' /\ Grounded'
  BY DEF Ready, BraceInv, Punctuated, Leveled, Grounded
<1>2. ASSUME Clear' PROVE Balanced'
  <2>1. Level(stack') + Entering(call') = Level(stack) + Entering(call)
    BY DEF Entering, Leveled
  <2>2. Flat(pos) /\ pos \in Cursor /\ Balanced
    BY <1>2, FlatHere DEF Ready, BraceInv, Flat
  <2> QED BY <1>2, <2>1, <2>2, FlatBalanced
<1> QED BY <1>1, <1>2 DEF BraceInv

\* ... and the functions the block that is their body.
LEMMA FunctionNextBraces ==
  ASSUME Ready, FunctionNext
  PROVE  BraceInv'
<1>1. CASE ProgramLoop
  <2>1. /\ stack = <<>> /\ pos' = pos /\ call = "parse" /\ Lexeme(pos)' = Lexeme(pos)
        /\ AtEnd(pos)' = AtEnd(pos) /\ RootsAtBottom
    BY <1>1 DEF ProgramLoop, Consume, Ready, BraceInv, Grounded, Lexeme, AtEnd
  <2>2. CASE AtEnd(pos) /\ TailCall("done")
    <3>1. Leveled /\ stack' = <<>> /\ call' = "done"
      BY <2>1, <2>2, TailLeveled DEF TailCall
    <3> QED BY <2>1, <2>2, <3>1, ProgramSteps
  <2>3. CASE \E at \in ProgramFrames, callee \in {"parseFunction", "parseStatement"} :
               /\ WaitAt(at, NoNode, callee)
               /\ callee = "parseFunction" => Lexeme(pos) \in TypeKeywords
    <3>1. PICK at \in ProgramFrames, callee \in {"parseFunction", "parseStatement"} :
               /\ WaitAt(at, NoNode, callee)
               /\ callee = "parseFunction" => Lexeme(pos) \in TypeKeywords
      BY <2>3
    <3>2. at \in Frames /\ BlockAt(at) = 0 /\ Level(stack) \in Nat
      BY LevelType DEF ProgramFrames, Frames, StatementFrames, BlockAt, Ready
    <3>3. RootsAtBottom' /\ Level(stack') = Level(stack) + BlockAt(at)
      BY <2>1, <3>1, <3>2, NodeTypes, WaitLevel DEF Ready
    <3>4. Leveled /\ call' = callee
      BY <3>1, <3>2, <3>3 DEF Leveled, WaitAt
    <3> QED BY <2>1, <3>1, <3>4, ProgramSteps
  <2> QED BY <1>1, <2>2, <2>3 DEF ProgramLoop, ProgramFrames
<1>2. CASE ProgramAddFunction \/ ProgramAfterStatement
  <2>1. /\ stack # <<>> /\ Top.at \in ProgramFrames /\ stack' = Popped
        /\ call = "return" /\ call' = "parse" /\ pos' = pos
    BY <1>2 DEF ProgramAddFunction, ProgramAfterStatement, Returned, Consume,
       ProgramFrames
  <2>2. /\ RootsAtBottom' /\ Level(stack) = Level(stack') + BlockAt(Top.at)
        /\ stack' = <<>>
    BY <2>1, FinishLevel DEF Ready, BraceInv, Grounded
  <2>3. BlockAt(Top.at) = 0 /\ Level(stack') \in Nat
    BY <2>1, OpenInFinite DEF ProgramFrames, BlockAt, Ready, TypeOK
  <2>4. Leveled
    BY <2>2, <2>3 DEF Leveled
  <2> QED BY <2>1, <2>2, <2>4, ProgramSteps
<1>3. CASE ProgramRetryAsStatement
  <2>1. /\ stack # <<>> /\ Top.at \in ProgramFrames
        /\ call = "return" /\ call' = "parseStatement" /\ pos' = pos
        /\ stack' = Append(Popped, [at |-> "program statement", node |-> NoNode])
    BY <1>3 DEF ProgramRetryAsStatement, Returned, Consume, MoveTo, ProgramFrames
  <2>2. "program statement" \in Frames /\ "program statement" \in ProgramFrames
    BY DEF Frames, StatementFrames, ProgramFrames
  <2>3. /\ RootsAtBottom'
        /\ Level(stack') + BlockAt(Top.at) = Level(stack) + BlockAt("program statement")
    BY <2>1, <2>2, NodeTypes, MoveLevel DEF Ready, BraceInv, Grounded
  <2>4. Level(stack) \in Nat /\ Level(stack') \in Nat
    BY OpenInFinite DEF Ready, TypeOK
  <2>5. Leveled
    <3>1. BlockAt(Top.at) = 0 /\ BlockAt("program statement") = 0
      BY <2>1 DEF ProgramFrames, BlockAt
    <3>2. Level(stack') + 0 = Level(stack) + 0
      BY <2>3, <3>1
    <3>3. Level(stack') = Level(stack)
      BY <2>4, <3>2
    <3> QED BY <2>3, <3>3 DEF Leveled
  <2>6. call = "return" /\ call' = "parseStatement" /\ pos' = pos
    BY <2>1
  <2> QED BY <2>5, <2>6, ProgramSteps
<1>4. CASE Recover
  <2>1. /\ call = "return" /\ ret = "null" /\ UNCHANGED <<pos, hadError, names, stack>>
        /\ call' = "synchronize" /\ Top.at \in {"program statement", "block"}
    BY <1>4 DEF Recover, Returned, TailCall, Consume, Quiet
  <2>2. Clear' => AtEnd(pos)
    BY <2>1 DEF Clear, Ready, TreeInv, Whole
  <2>3. Leveled
    BY <2>1, TailLeveled
  <2> QED BY <2>1, <2>2, <2>3, ProgramSteps
<1>5. CASE Synchronize
  <2>1. call = "synchronize" /\ UNCHANGED <<stack, hadError, names>>
        /\ call' \in {"synchronize", "return"}
    BY <1>5 DEF Synchronize, TailCall, Return, Consume, Quiet
  <2>2. AtEnd(pos) => pos' = pos /\ call' = "return"
    <3>1. AtEnd(pos) => Lexeme(pos) = NoLexeme
      BY LexemesBefore DEF Ready
    <3> QED BY <1>5, <3>1 DEF Synchronize, Return, Consume, NoLexeme
  <2>3. Clear' => AtEnd(pos)
    BY <2>1 DEF Ready, BraceInv, Balanced, Clear
  <2>4. Leveled
    BY <2>1, TailLeveled
  <2> QED BY <2>1, <2>2, <2>3, <2>4, ProgramSteps
<1>6. CASE FunctionHeader
  <2>1. Plain(pos) /\ call # "parseBlock"
    BY <1>6, PlainWords DEF FunctionHeader, Ready, BraceInv, Grounded
  <2>2. Clear' => Flat(pos')
    BY <1>6, <2>1, FlatAhead, PlainWords DEF FunctionHeader, Consume, Clear, Plain, Ready
  <2> QED BY <1>6, <2>1, <2>2, TailFlat, ReturnFlat, InnerCalls DEF FunctionHeader
<1>7. CASE Parameter
  <2>1. Clear' => Flat(pos')
    BY <1>7, FlatAhead, PlainWords, LexemesBefore
    DEF Parameter, Consume, Clear, Plain, Ready
  <2> QED BY <1>7, <2>1, TailFlat, InnerCalls DEF Parameter
<1>8. CASE ParameterListEnd
  <2>1. Clear' => Flat(pos')
    BY <1>8, FlatAhead DEF ParameterListEnd, Consume, Ready
  <2> QED BY <1>8, <2>1, TailFlat, InnerCalls DEF ParameterListEnd
<1>9. CASE FunctionBody
  <2>1. \/ /\ Lexeme(pos) = Opening /\ pos' = Match(pos, Opening) /\ call' = Body(pos)
           /\ WaitAt("function body", NoNode, "parseBlock")
        \/ pos' = pos /\ Return("null")
    BY <1>9 DEF FunctionBody, Opening, Consume, Match, Body, WaitAt
  <2>2. call # "parseBlock" /\ Flat(pos)
    BY <1>9, FlatHere DEF FunctionBody, Ready
  <2> QED BY <2>1, <2>2, WaitLeveled, StepToBody, ReturnFlat, InnerPlaces, NodeTypes
<1> QED BY <1>1, <1>2, <1>3, <1>4, <1>5, <1>6, <1>7, <1>8, <1>9 DEF FunctionNext

-----------------------------------------------------------------------------
(* The theorem *)

(***************************************************************************)
(* The invariant that AcceptedBracesBalance follows from: wherever the     *)
(* parser is, as many braces are open in the tokens it has consumed as     *)
(* blocks are being parsed.                                                *)
(***************************************************************************)
THEOREM BracesFollowBlocks == Spec => []BraceInv
<1>1. Init => BraceInv
  <2> SUFFICES ASSUME Init PROVE BraceInv
    OBVIOUS
  <2>1. Punctuated
    BY PunctuationAssumption, InputsAssumption DEF Init, Punctuated
  <2>2. Grounded
    BY EmptySeq DEF Init, Grounded, RootsAtBottom
  <2>3. Balanced
    <3>1. OpenIn(<<>>) = {}
      BY EmptySeq DEF OpenIn
    <3>2. Level(stack) = 0 /\ Entering(call) = 0 /\ pos = 0 /\ call # "synchronize"
      BY <3>1, FS_EmptySet DEF Init, Level, Entering
    <3>3. Surplus(0) = 0
      <4>1. \A l : Count(l, 0) = 0
        <5>1. \A l : {i \in 1 .. 0 : tokens[i].lexeme = l} = {}
          OBVIOUS
        <5> QED BY <5>1, FS_EmptySet DEF Count
      <4> QED BY <4>1 DEF Surplus
    <3> QED BY <3>2, <3>3 DEF Balanced
  <2> QED BY <2>1, <2>2, <2>3 DEF BraceInv
<1>2. TypeOK /\ TypeOK' /\ TreeInv /\ BraceInv /\ [Next]_vars => BraceInv'
  <2> SUFFICES ASSUME TypeOK, TypeOK', TreeInv, BraceInv, [Next]_vars PROVE BraceInv'
    OBVIOUS
  <2>1. CASE UNCHANGED vars
    BY <2>1 DEF vars, BraceInv, Punctuated, Grounded, RootsAtBottom, Lexeme, AtEnd,
       Clear, Balanced, Surplus, Count, Level, OpenIn, Entering
  <2>2. CASE Next
    <3>1. Ready
      BY <2>2, SourceKept, ErrorStays DEF Ready, Clear
    <3>2. CASE Terminated
      BY <2>1, <3>2 DEF Terminated
    <3> QED BY <2>2, <3>1, <3>2, FunctionNextBraces, StatementNextBraces,
               ExpressionNextBraces
            DEF Next
  <2> QED BY <2>1, <2>2
<1> QED BY <1>1, <1>2, Typing, TreesAreWhole, PTL DEF Spec

(***************************************************************************)
(* Recovery, early returns and optional lexemes never lose or invent the   *)
(* end of a block: the blocks of a program that the parser accepts are     *)
(* closed where they were opened, unless a brace stands where a type or a  *)
(* name belongs.                                                           *)
(***************************************************************************)
THEOREM BlocksAreClosed == Spec => []AcceptedBracesBalance
<1>1. TypeOK /\ BraceInv => AcceptedBracesBalance
  <2> SUFFICES ASSUME TypeOK, BraceInv, call = "done", Clear
               PROVE  /\ Count("{", Len(tokens)) = Count("}", Len(tokens))
                      /\ \A n \in 1 .. Len(tokens) : Count("{", n) >= Count("}", n)
    BY DEF AcceptedBracesBalance, Clear
  <2>1. stack = <<>> /\ AtEnd(pos) /\ Balanced
    BY DEF BraceInv, Grounded
  <2>2. Level(stack) = 0 /\ Entering(call) = 0
    <3>1. OpenIn(<<>>) = {}
      BY EmptySeq DEF OpenIn
    <3> QED BY <2>1, <3>1, FS_EmptySet DEF Level, Entering
  <2>3. pos = Len(tokens) /\ Len(tokens) \in Nat
    BY <2>1 DEF TypeOK, AtEnd
  <2>4. Surplus(Len(tokens)) = 0 /\ \A n \in 1 .. Len(tokens) : Surplus(n) >= 0
    BY <2>1, <2>2, <2>3 DEF Balanced
  <2>5. \A l : \A n \in 0 .. Len(tokens) : Count(l, n) \in Nat
    BY Counting DEF Cursor
  <2>6. /\ Count(Opening, Len(tokens)) = Count(Closing, Len(tokens))
        /\ \A n \in 1 .. Len(tokens) : Count(Opening, n) >= Count(Closing, n)
    BY <2>3, <2>4, <2>5 DEF Surplus
  <2> QED BY <2>6 DEF Opening, Closing
<1> QED BY <1>1, BracesFollowBlocks, Typing, PTL
=============================================================================
