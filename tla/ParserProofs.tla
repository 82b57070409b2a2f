---------------------------- MODULE ParserProofs ----------------------------
(***************************************************************************)
(* Theorems about Parser, for every set of token streams.                  *)
(***************************************************************************)
EXTENDS Parser, SequenceTheorems, TLAPS

Results == Node \cup {NoNode}

Cursor == 0 .. Len(tokens)

-----------------------------------------------------------------------------
(* The cursor *)

\* Where a lexeme is read there is a token, and the cursor may move over it.
LEMMA LexemeAhead ==
  ASSUME TypeOK, NEW p \in Nat
  PROVE  /\ Lexeme(p) \in Lexemes \cup {NoLexeme}
         /\ Lexeme(p) # NoLexeme => p + 1 \in Cursor
         /\ AtEnd(p) => Lexeme(p) = NoLexeme
<1>1. Len(tokens) \in Nat /\ (p < Len(tokens) => tokens[p + 1] \in Token)
  BY DEF TypeOK
<1>2. CASE AtEnd(p)
  BY <1>1, <1>2 DEF Lexeme, AtEnd, Cursor
<1>3. CASE ~AtEnd(p)
  BY <1>1, <1>3 DEF Lexeme, AtEnd, Cursor, Token
<1> QED BY <1>2, <1>3

\* matchToken keeps the cursor inside the stream.
LEMMA MatchInside ==
  ASSUME TypeOK, NEW p \in Cursor, NEW lexeme, lexeme # NoLexeme
  PROVE  Match(p, lexeme) \in Cursor /\ Match(p, lexeme) >= p
BY LexemeAhead DEF Match, Cursor, TypeOK

\* So does getNextToken.
LEMMA SkipInside ==
  ASSUME TypeOK, NEW p \in Cursor, NEW n \in Nat
  PROVE  Skip(p, n) \in Cursor /\ Skip(p, n) >= p
BY DEF Skip, Cursor, TypeOK

\* The end of the stream is neither a keyword nor an operator.
LEMMA KeywordsAreLexemes ==
  /\ NoLexeme \notin TypeKeywords \cup DeclarationKeywords \cup StatementKeywords
  /\ \A level \in BinaryLevels : NoLexeme \notin Operators(level)
BY DEF TypeKeywords, DeclarationKeywords, StatementKeywords, BinaryLevels,
   Operators, NoLexeme

\* What an action reads as a type or a name.
LEMMA NamesRead ==
  ASSUME TypeOK
  PROVE  \A p \in {pos, pos + 1} : Lexeme(p) \in Lexemes \cup {NoLexeme}
<1>1. pos \in Nat /\ pos + 1 \in Nat
  BY DEF TypeOK
<1> QED BY <1>1, LexemeAhead

\* The places an action moves the cursor to.
LEMMA Ahead ==
  ASSUME TypeOK
  PROVE  /\ pos \in Cursor
         /\ ~AtEnd(pos) \/ Kind(pos) # "Unknown" => pos + 1 \in Cursor
         /\ Lexeme(pos) # NoLexeme =>
              pos + 1 \in Cursor /\ Match(pos + 1, "{") \in Cursor
         /\ Lexeme(pos + 1) # NoLexeme => pos + 2 \in Cursor
         /\ Lexeme(pos + 2) # NoLexeme => pos + 3 \in Cursor
         /\ \A l \in {")", "}"} : Match(pos, l) \in Cursor
         /\ Skip(pos, 2) \in Cursor /\ Match(Skip(pos, 2), ")") \in Cursor
<1>1. pos \in Nat /\ pos \in Cursor /\ Len(tokens) \in Nat
  BY DEF TypeOK, Cursor
<1>2. ~AtEnd(pos) \/ Kind(pos) # "Unknown" => pos + 1 \in Cursor
  BY <1>1 DEF AtEnd, Kind, Cursor
<1>3. Lexeme(pos) # NoLexeme => pos + 1 \in Cursor
  BY <1>1, LexemeAhead
<1>4. pos + 1 \in Cursor => Match(pos + 1, "{") \in Cursor
  BY MatchInside DEF NoLexeme
<1>5. Lexeme(pos + 1) # NoLexeme => pos + 2 \in Cursor
  BY <1>1, LexemeAhead, pos + 1 \in Nat, pos + 1 + 1 = pos + 2
<1>6. Lexeme(pos + 2) # NoLexeme => pos + 3 \in Cursor
  BY <1>1, LexemeAhead, pos + 2 \in Nat, pos + 2 + 1 = pos + 3
<1>7. \A p \in Cursor, l \in {")", "}"} : Match(p, l) \in Cursor
  BY MatchInside DEF NoLexeme
<1>8. Skip(pos, 2) \in Cursor
  BY <1>1, SkipInside
<1> QED BY <1>1, <1>2, <1>3, <1>4, <1>5, <1>6, <1>7, <1>8

\* A level's activations wait for the function that parses its operands.
LEMMA LevelTypes ==
  \A level \in Levels : level \in Frames /\ Operand(level) \in Calls
<1>1. \A level \in Levels : level \in Frames
  BY DEF Frames, ExpressionFrames
<1>2. \A level \in Levels : Operand(level) \in Calls
  BY DEF Levels, BinaryLevels, Operand, Calls
<1> QED BY <1>1, <1>2

-----------------------------------------------------------------------------
(* The stack *)

\* Pushing a frame, and replacing the one on top.
LEMMA PushType ==
  ASSUME NEW s \in Seq(Frame), NEW at \in Frames, NEW node \in Results
  PROVE  /\ Append(s, [at |-> at, node |-> node]) \in Seq(Frame)
         /\ Len(Append(s, [at |-> at, node |-> node])) = Len(s) + 1
         /\ \A i \in 1 .. Len(s) : Append(s, [at |-> at, node |-> node])[i] = s[i]
         /\ Append(s, [at |-> at, node |-> node])[Len(s) + 1]
              = [at |-> at, node |-> node]
<1>1. [at |-> at, node |-> node] \in Frame
  BY DEF Frame, Results
<1> QED BY <1>1, AppendProperties

LEMMA PopType ==
  ASSUME stack \in Seq(Frame), stack # <<>>
  PROVE  /\ Popped \in Seq(Frame)
         /\ Len(Popped) = Len(stack) - 1
         /\ Len(stack) \in Nat \ {0}
         /\ \A i \in 1 .. Len(Popped) : Popped[i] = stack[i]
         /\ Top \in Frame
<1>1. Len(stack) \in Nat \ {0}
  BY EmptySeq
<1>2. \A i \in 1 .. Len(stack) - 1 : stack[i] \in Frame
  BY <1>1, ElementOfSeq
<1>3. Top \in Frame
  BY <1>1, ElementOfSeq DEF Top
<1>4. /\ SubSeq(stack, 1, Len(stack) - 1) \in Seq(Frame)
      /\ Len(SubSeq(stack, 1, Len(stack) - 1)) = Len(stack) - 1
      /\ \A i \in 1 .. Len(stack) - 1 :
            SubSeq(stack, 1, Len(stack) - 1)[i] = stack[i]
  <2>1. 1 \in 1 .. Len(stack) + 1 /\ Len(stack) - 1 \in 0 .. Len(stack)
    BY <1>1
  <2>2. Len(stack) - 1 + 1 - 1 = Len(stack) - 1 /\ 1 + Len(stack) - 1 = Len(stack)
    BY <1>1
  <2> QED BY <1>1, <2>1, <2>2, SubSeqProperties
<1> QED BY <1>1, <1>3, <1>4 DEF Popped

\* The part of the state that the control operators change.
Control ==
  /\ stack \in Seq(Frame)
  /\ call \in Calls
  /\ ret \in Results

LEMMA WaitAtType ==
  ASSUME TypeOK, NEW at \in Frames, NEW node \in Results, NEW callee \in Calls,
         WaitAt(at, node, callee)
  PROVE  Control'
BY PushType DEF WaitAt, Control, TypeOK, Results

LEMMA MoveToType ==
  ASSUME TypeOK, stack # <<>>, NEW at \in Frames, NEW node \in Results,
         NEW callee \in Calls, MoveTo(at, node, callee)
  PROVE  Control'
BY PushType, PopType DEF MoveTo, Control, TypeOK, Results

LEMMA TailCallType ==
  ASSUME TypeOK, NEW callee \in Calls, TailCall(callee)
  PROVE  Control'
BY DEF TailCall, Control, TypeOK, Results

LEMMA ReturnType ==
  ASSUME TypeOK, NEW node \in Results, Return(node)
  PROVE  Control'
BY DEF Return, Control, TypeOK, Results, Calls

LEMMA FinishType ==
  ASSUME TypeOK, stack # <<>>, NEW node \in Results, Finish(node)
  PROVE  Control'
BY PopType DEF Finish, Control, TypeOK, Results, Calls

LEMMA CallMadeType ==
  ASSUME TypeOK, stack # <<>>, NEW node \in Results, CallMade(node)
  PROVE  Control'
BY PushType, PopType DEF CallMade, Control, TypeOK, Results, Calls, Frames,
   ExpressionFrames, Levels

\* A node is a result whatever its children are, and never a null one.
LEMMA MakeNodeType ==
  \A required, guarded : MakeNode(required, guarded) \in {"node", "hollow"}
BY DEF MakeNode

\* The nodes an activation can start with.
LEMMA NodeTypes ==
  /\ NoNode \in Results /\ "null" \in Results /\ "node" \in Results
  /\ \A node \in {"node", "hollow"} : node \in Results
BY DEF Results, Node

\* The action moves the cursor to a place of the stream.
MovesInside == pos' \in Cursor /\ hadError' \in BOOLEAN

LEMMA QuietType ==
  ASSUME TypeOK, Quiet, MovesInside, Control'
  PROVE  TypeOK'
BY DEF MovesInside, Quiet, TypeOK, Control, Results, Cursor

LEMMA NamesType ==
  ASSUME TypeOK, UNCHANGED <<tokens, functions>>, MovesInside, Control',
         names' \subseteq Lexemes \cup {NoLexeme}
  PROVE  TypeOK'
BY DEF MovesInside, TypeOK, Control, Results, Cursor

-----------------------------------------------------------------------------
(* Type correctness, one step per action *)
\* parse and the parts of parseFunction keep every variable in its type.
LEMMA FunctionNextType ==
  ASSUME TypeOK, FunctionNext
  PROVE  TypeOK'
<1>1. CASE ProgramLoop
  <2>1. Control'
    BY <1>1, WaitAtType, TailCallType, NodeTypes
    DEF TypeOK, ProgramLoop, Results, Frames, ExpressionFrames,
        StatementFrames, Calls, Levels
  <2>2. MovesInside
    BY <1>1, Ahead, KeywordsAreLexemes
    DEF MovesInside, Consume, Fail, NoLexeme, TypeOK, ProgramLoop
  <2> QED BY <1>1, <2>1, <2>2, QuietType DEF ProgramLoop
<1>2. CASE ProgramAddFunction
  <2>1. Control'
    BY <1>2, NodeTypes, PopType
    DEF TypeOK, ProgramAddFunction, Returned, Results, Frames,
        ExpressionFrames, StatementFrames, Calls, Levels, Control
  <2>2. MovesInside
    BY <1>2, Ahead
    DEF MovesInside, Consume, Fail, NoLexeme, TypeOK, ProgramAddFunction
  <2>3. functions' \in Seq(Node)
    BY <1>2, AppendProperties DEF TypeOK, ProgramAddFunction, Returned
  <2> QED BY <1>2, <2>1, <2>2, <2>3 DEF TypeOK, Control, MovesInside, Results,
      Cursor, ProgramAddFunction
<1>3. CASE ProgramRetryAsStatement
  <2>1. Control'
    BY <1>3, MoveToType, NodeTypes
    DEF TypeOK, ProgramRetryAsStatement, Returned, Results, Frames,
        ExpressionFrames, StatementFrames, Calls, Levels
  <2>2. MovesInside
    BY <1>3, Ahead
    DEF MovesInside, Consume, Fail, NoLexeme, TypeOK, ProgramRetryAsStatement
  <2> QED BY <1>3, <2>1, <2>2, QuietType DEF ProgramRetryAsStatement
<1>4. CASE ProgramAfterStatement
  <2>1. Control'
    BY <1>4, NodeTypes, PopType
    DEF TypeOK, ProgramAfterStatement, Returned, Results, Frames,
        ExpressionFrames, StatementFrames, Calls, Levels, Control
  <2>2. MovesInside
    BY <1>4, Ahead
    DEF MovesInside, Consume, Fail, NoLexeme, TypeOK, ProgramAfterStatement
  <2> QED BY <1>4, <2>1, <2>2, QuietType DEF ProgramAfterStatement
<1>5. CASE Recover
  <2>1. Control'
    BY <1>5, TailCallType, NodeTypes
    DEF TypeOK, Recover, Returned, Results, Frames, ExpressionFrames,
        StatementFrames, Calls, Levels
  <2>2. MovesInside
    BY <1>5, Ahead
    DEF MovesInside, Consume, Fail, NoLexeme, TypeOK, Recover
  <2> QED BY <1>5, <2>1, <2>2, QuietType DEF Recover
<1>6. CASE Synchronize
  <2>1. Control'
    BY <1>6, TailCallType, ReturnType, NodeTypes
    DEF TypeOK, Synchronize, Results, Frames, ExpressionFrames,
        StatementFrames, Calls, Levels
  <2>2. MovesInside
    BY <1>6, Ahead
    DEF MovesInside, Consume, Fail, NoLexeme, TypeOK, Synchronize
  <2> QED BY <1>6, <2>1, <2>2, QuietType DEF Synchronize
<1>7. CASE FunctionHeader
  <2>1. Control'
    BY <1>7, TailCallType, ReturnType, NodeTypes
    DEF TypeOK, FunctionHeader, Results, Frames, ExpressionFrames,
        StatementFrames, Calls, Levels
  <2>2. MovesInside
    BY <1>7, Ahead
    DEF MovesInside, Consume, Fail, NoLexeme, TypeOK, FunctionHeader
  <2>3. names' \subseteq Lexemes \cup {NoLexeme}
    BY <1>7, NamesRead DEF TypeOK, FunctionHeader
  <2> QED BY <1>7, <2>1, <2>2, <2>3, NamesType DEF FunctionHeader
<1>8. CASE Parameter
  <2>1. Control'
    BY <1>8, TailCallType
    DEF TypeOK, Parameter, Results, Frames, ExpressionFrames, StatementFrames,
        Calls, Levels
  <2>2. MovesInside
    BY <1>8, Ahead
    DEF MovesInside, Consume, Fail, NoLexeme, TypeOK, Parameter
  <2>3. names' \subseteq Lexemes \cup {NoLexeme}
    BY <1>8, NamesRead DEF TypeOK, Parameter
  <2> QED BY <1>8, <2>1, <2>2, <2>3, NamesType DEF Parameter
<1>9. CASE ParameterListEnd
  <2>1. Control'
    BY <1>9, TailCallType
    DEF TypeOK, ParameterListEnd, Results, Frames, ExpressionFrames,
        StatementFrames, Calls, Levels
  <2>2. MovesInside
    BY <1>9, Ahead
    DEF MovesInside, Consume, Fail, NoLexeme, TypeOK, ParameterListEnd
  <2> QED BY <1>9, <2>1, <2>2, QuietType DEF ParameterListEnd
<1>10. CASE FunctionBody
  <2>1. Control'
    BY <1>10, WaitAtType, ReturnType, NodeTypes
    DEF TypeOK, FunctionBody, Results, Frames, ExpressionFrames,
        StatementFrames, Calls, Levels
  <2>2. MovesInside
    BY <1>10, Ahead
    DEF MovesInside, Consume, Fail, NoLexeme, TypeOK, FunctionBody
  <2> QED BY <1>10, <2>1, <2>2, QuietType DEF FunctionBody
<1> QED BY <1>1, <1>2, <1>3, <1>4, <1>5, <1>6, <1>7, <1>8, <1>9, <1>10
  DEF FunctionNext

\* So do the statements ...
LEMMA StatementNextType ==
  ASSUME TypeOK, StatementNext
  PROVE  TypeOK'
<1>1. CASE BlockStart
  <2>1. Control'
    BY <1>1, WaitAtType, NodeTypes
    DEF TypeOK, BlockStart, Results, Frames, ExpressionFrames,
        StatementFrames, Calls, Levels
  <2>2. MovesInside
    BY <1>1, Ahead
    DEF MovesInside, Consume, Fail, NoLexeme, TypeOK, BlockStart
  <2> QED BY <1>1, <2>1, <2>2, QuietType DEF BlockStart
<1>2. CASE BlockStatement
  <2>1. Control'
    BY <1>2, TailCallType, NodeTypes
    DEF TypeOK, BlockStatement, Returned, Results, Frames, ExpressionFrames,
        StatementFrames, Calls, Levels
  <2>2. MovesInside
    BY <1>2, Ahead
    DEF MovesInside, Consume, Fail, NoLexeme, TypeOK, BlockStatement
  <2> QED BY <1>2, <2>1, <2>2, QuietType DEF BlockStatement
<1>3. CASE BlockAdd
  <2>1. Control'
    BY <1>3, MoveToType, MakeNodeType, NodeTypes, PopType
    DEF TypeOK, BlockAdd, Returned, Results, Frames, ExpressionFrames,
        StatementFrames, Calls, Levels, Frame
  <2>2. MovesInside
    BY <1>3, Ahead
    DEF MovesInside, Consume, Fail, NoLexeme, TypeOK, BlockAdd
  <2> QED BY <1>3, <2>1, <2>2, QuietType DEF BlockAdd
<1>4. CASE BlockEnd
  <2>1. Control'
    BY <1>4, FinishType, NodeTypes, PopType
    DEF TypeOK, BlockEnd, Returned, Results, Frames, ExpressionFrames,
        StatementFrames, Calls, Levels, Frame
  <2>2. MovesInside
    BY <1>4, Ahead
    DEF MovesInside, Consume, Fail, NoLexeme, TypeOK, BlockEnd
  <2> QED BY <1>4, <2>1, <2>2, QuietType DEF BlockEnd
<1>5. CASE StatementAtEnd
  <2>1. Control'
    BY <1>5, ReturnType, NodeTypes
    DEF TypeOK, StatementAtEnd, Results, Frames, ExpressionFrames,
        StatementFrames, Calls, Levels
  <2>2. MovesInside
    BY <1>5, Ahead
    DEF MovesInside, Consume, Fail, NoLexeme, TypeOK, StatementAtEnd
  <2> QED BY <1>5, <2>1, <2>2, QuietType DEF StatementAtEnd
<1>6. CASE NestedBlock
  <2>1. Control'
    BY <1>6, TailCallType
    DEF TypeOK, NestedBlock, Results, Frames, ExpressionFrames,
        StatementFrames, Calls, Levels
  <2>2. MovesInside
    BY <1>6, Ahead
    DEF MovesInside, Consume, Fail, NoLexeme, TypeOK, NestedBlock
  <2> QED BY <1>6, <2>1, <2>2, QuietType DEF NestedBlock
<1>7. CASE BodyDone
  <2>1. Control'
    BY <1>7, FinishType, MakeNodeType, NodeTypes, PopType
    DEF TypeOK, BodyDone, Returned, Results, Frames, ExpressionFrames,
        StatementFrames, Calls, Levels, Frame
  <2>2. MovesInside
    BY <1>7, Ahead
    DEF MovesInside, Consume, Fail, NoLexeme, TypeOK, BodyDone
  <2> QED BY <1>7, <2>1, <2>2, QuietType DEF BodyDone
<1>8. CASE IfStart
  <2>1. Control'
    BY <1>8, WaitAtType, ReturnType, NodeTypes
    DEF TypeOK, IfStart, HeaderStart, Results, Frames, ExpressionFrames,
        StatementFrames, Calls, Levels
  <2>2. MovesInside
    BY <1>8, Ahead
    DEF MovesInside, Consume, Fail, NoLexeme, TypeOK, IfStart, HeaderStart
  <2> QED BY <1>8, <2>1, <2>2, QuietType DEF IfStart, HeaderStart
<1>9. CASE IfCondition
  <2>1. Control'
    BY <1>9, MoveToType, FinishType, MakeNodeType, NodeTypes
    DEF TypeOK, IfCondition, HeaderEnd, Missing, Returned, Body, Results,
        Frames, ExpressionFrames, StatementFrames, Calls, Levels
  <2>2. MovesInside
    BY <1>9, Ahead
    DEF MovesInside, Consume, Fail, NoLexeme, TypeOK, IfCondition, HeaderEnd,
        Missing
  <2> QED BY <1>9, <2>1, <2>2, QuietType DEF IfCondition, HeaderEnd
<1>10. CASE IfThen
  <2>1. Control'
    BY <1>10, MoveToType, FinishType, MakeNodeType, NodeTypes, PopType
    DEF TypeOK, IfThen, Returned, Body, Results, Frames, ExpressionFrames,
        StatementFrames, Calls, Levels, Frame
  <2>2. MovesInside
    BY <1>10, Ahead
    DEF MovesInside, Consume, Fail, NoLexeme, TypeOK, IfThen
  <2> QED BY <1>10, <2>1, <2>2, QuietType DEF IfThen
<1>11. CASE WhileStart
  <2>1. Control'
    BY <1>11, WaitAtType, ReturnType, NodeTypes
    DEF TypeOK, WhileStart, HeaderStart, Results, Frames, ExpressionFrames,
        StatementFrames, Calls, Levels
  <2>2. MovesInside
    BY <1>11, Ahead
    DEF MovesInside, Consume, Fail, NoLexeme, TypeOK, WhileStart, HeaderStart
  <2> QED BY <1>11, <2>1, <2>2, QuietType DEF WhileStart, HeaderStart
<1>12. CASE WhileCondition
  <2>1. Control'
    BY <1>12, MoveToType, FinishType, MakeNodeType, NodeTypes
    DEF TypeOK, WhileCondition, HeaderEnd, Missing, Returned, Body, Results,
        Frames, ExpressionFrames, StatementFrames, Calls, Levels
  <2>2. MovesInside
    BY <1>12, Ahead
    DEF MovesInside, Consume, Fail, NoLexeme, TypeOK, WhileCondition,
        HeaderEnd, Missing
  <2> QED BY <1>12, <2>1, <2>2, QuietType DEF WhileCondition, HeaderEnd
<1>13. CASE ForStart
  <2>1. Control'
    BY <1>13, WaitAtType, ReturnType, NodeTypes
    DEF TypeOK, ForStart, Optional, Results, Frames, ExpressionFrames,
        StatementFrames, Calls, Levels
  <2>2. MovesInside
    BY <1>13, Ahead, KeywordsAreLexemes
    DEF MovesInside, Consume, Fail, NoLexeme, TypeOK, ForStart
  <2> QED BY <1>13, <2>1, <2>2, QuietType DEF ForStart
<1>14. CASE ForInit
  <2>1. Control'
    BY <1>14, MoveToType, FinishType, MakeNodeType, NodeTypes
    DEF TypeOK, ForInit, Missing, Returned, Optional, Results, Frames,
        ExpressionFrames, StatementFrames, Calls, Levels
  <2>2. MovesInside
    BY <1>14, Ahead
    DEF MovesInside, Consume, Fail, NoLexeme, TypeOK, ForInit, Missing
  <2> QED BY <1>14, <2>1, <2>2, QuietType DEF ForInit
<1>15. CASE ForDeclaration
  <2>1. Control'
    BY <1>15, MoveToType, MakeNodeType, NodeTypes
    DEF TypeOK, ForDeclaration, Returned, Optional, Results, Frames,
        ExpressionFrames, StatementFrames, Calls, Levels
  <2>2. MovesInside
    BY <1>15, Ahead
    DEF MovesInside, Consume, Fail, NoLexeme, TypeOK, ForDeclaration
  <2> QED BY <1>15, <2>1, <2>2, QuietType DEF ForDeclaration
<1>16. CASE ForCondition
  <2>1. Control'
    BY <1>16, MoveToType, FinishType, MakeNodeType, NodeTypes, PopType
    DEF TypeOK, ForCondition, Missing, Returned, Optional, Results, Frames,
        ExpressionFrames, StatementFrames, Calls, Levels, Frame
  <2>2. MovesInside
    BY <1>16, Ahead
    DEF MovesInside, Consume, Fail, NoLexeme, TypeOK, ForCondition, Missing
  <2> QED BY <1>16, <2>1, <2>2, QuietType DEF ForCondition
<1>17. CASE ForIncrement
  <2>1. Control'
    BY <1>17, MoveToType, FinishType, MakeNodeType, NodeTypes, PopType
    DEF TypeOK, ForIncrement, HeaderEnd, Missing, Returned, Body, Results,
        Frames, ExpressionFrames, StatementFrames, Calls, Levels, Frame
  <2>2. MovesInside
    BY <1>17, Ahead
    DEF MovesInside, Consume, Fail, NoLexeme, TypeOK, ForIncrement, HeaderEnd,
        Missing
  <2> QED BY <1>17, <2>1, <2>2, QuietType DEF ForIncrement, HeaderEnd
<1>18. CASE ReturnStart
  <2>1. Control'
    BY <1>18, WaitAtType, ReturnType, NodeTypes
    DEF TypeOK, ReturnStart, Results, Frames, ExpressionFrames,
        StatementFrames, Calls, Levels
  <2>2. MovesInside
    BY <1>18, Ahead
    DEF MovesInside, Consume, Fail, NoLexeme, TypeOK, ReturnStart
  <2> QED BY <1>18, <2>1, <2>2, QuietType DEF ReturnStart
<1>19. CASE DeclarationKeyword
  <2>1. Control'
    BY <1>19, TailCallType
    DEF TypeOK, DeclarationKeyword, Results, Frames, ExpressionFrames,
        StatementFrames, Calls, Levels
  <2>2. MovesInside
    BY <1>19, Ahead, KeywordsAreLexemes
    DEF MovesInside, Consume, Fail, NoLexeme, TypeOK, DeclarationKeyword
  <2> QED BY <1>19, <2>1, <2>2, QuietType DEF DeclarationKeyword
<1>20. CASE DeclarationLike
  <2>1. Control'
    BY <1>20, WaitAtType, ReturnType, NodeTypes
    DEF TypeOK, DeclarationLike, Results, Frames, ExpressionFrames,
        StatementFrames, Calls, Levels
  <2> DEFINE p == IF Lexeme(pos + 1) \in {NoLexeme, "=", ";"} THEN pos + 1
                 ELSE pos + 2
  <2>2. MovesInside /\ names' \subseteq Lexemes \cup {NoLexeme}
    <3>1. CASE AtEnd(pos) /\ Fail(pos) /\ UNCHANGED names
      BY <3>1, Ahead DEF MovesInside, Fail, TypeOK
    <3>2. CASE /\ ~AtEnd(pos) \/ Lexeme(p) = "="
               /\ names' = names \cup {Lexeme(pos), Lexeme(p - 1)}
               /\ (Lexeme(p) = "=" /\ Consume(p + 1)) \/ Fail(p)
      <4>1. pos \in Nat /\ pos + 1 - 1 = pos /\ pos + 2 - 1 = pos + 1
        BY DEF TypeOK
      <4>2. p \in {pos + 1, pos + 2} /\ p - 1 \in {pos, pos + 1}
        BY <4>1
      <4>3. AtEnd(pos) => Lexeme(pos + 1) = NoLexeme /\ Lexeme(pos + 2) = NoLexeme
        BY <4>1, LexemeAhead DEF AtEnd, TypeOK, Lexeme
      <4>4. p \in Cursor
        BY <3>2, <4>1, <4>3, Ahead DEF NoLexeme
      <4>5. Lexeme(p) = "=" => p + 1 \in Cursor
        <5>1. pos + 1 + 1 = pos + 2 /\ pos + 2 + 1 = pos + 3
          BY <4>1
        <5> HIDE DEF p
        <5> QED BY <4>2, <5>1, Ahead DEF NoLexeme
      <4> HIDE DEF p
      <4> QED BY <3>2, <4>2, <4>4, <4>5, NamesRead
                 DEF MovesInside, Consume, Fail, TypeOK
    <3> QED BY <1>20, <3>1, <3>2 DEF DeclarationLike
  <2> QED BY <1>20, <2>1, <2>2, NamesType DEF DeclarationLike
<1>21. CASE TypedDeclaration
  <2>1. Control'
    BY <1>21, WaitAtType, ReturnType, NodeTypes
    DEF TypeOK, TypedDeclaration, Results, Frames, ExpressionFrames,
        StatementFrames, Calls, Levels
  <2>2. MovesInside
    BY <1>21, Ahead, KeywordsAreLexemes
    DEF MovesInside, Consume, Fail, NoLexeme, TypeOK, TypedDeclaration
  <2>3. names' \subseteq Lexemes \cup {NoLexeme}
    BY <1>21, NamesRead DEF TypeOK, TypedDeclaration
  <2> QED BY <1>21, <2>1, <2>2, <2>3, NamesType DEF TypedDeclaration
<1>22. CASE ExpressionThenSemicolon
  <2>1. Control'
    BY <1>22, FinishType, MakeNodeType, NodeTypes
    DEF TypeOK, ExpressionThenSemicolon, Expect, Missing, Returned, Results,
        Frames, ExpressionFrames, StatementFrames, Calls, Levels
  <2>2. MovesInside
    BY <1>22, Ahead
    DEF MovesInside, Consume, Fail, NoLexeme, TypeOK, ExpressionThenSemicolon,
        Expect, Missing
  <2> QED BY <1>22, <2>1, <2>2, QuietType DEF ExpressionThenSemicolon
<1>23. CASE AssignmentStart
  <2>1. Control'
    BY <1>23, WaitAtType, NodeTypes
    DEF TypeOK, AssignmentStart, Results, Frames, ExpressionFrames,
        StatementFrames, Calls, Levels
  <2>2. MovesInside
    BY <1>23, Ahead, KeywordsAreLexemes
    DEF MovesInside, Consume, Fail, NoLexeme, TypeOK, AssignmentStart,
        IsAssignment
  <2> QED BY <1>23, <2>1, <2>2, QuietType DEF AssignmentStart
<1>24. CASE AssignmentEnd
  <2>1. Control'
    BY <1>24, FinishType, MakeNodeType, NodeTypes
    DEF TypeOK, AssignmentEnd, Expect, Missing, Returned, Results, Frames,
        ExpressionFrames, StatementFrames, Calls, Levels
  <2>2. MovesInside
    BY <1>24, Ahead
    DEF MovesInside, Consume, Fail, NoLexeme, TypeOK, AssignmentEnd, Expect,
        Missing
  <2> QED BY <1>24, <2>1, <2>2, QuietType DEF AssignmentEnd
<1>25. CASE ExpressionStatementStart
  <2>1. Control'
    BY <1>25, WaitAtType, NodeTypes
    DEF TypeOK, ExpressionStatementStart, Results, Frames, ExpressionFrames,
        StatementFrames, Calls, Levels
  <2>2. MovesInside
    BY <1>25, Ahead, KeywordsAreLexemes
    DEF MovesInside, Consume, Fail, NoLexeme, TypeOK,
        ExpressionStatementStart, IsAssignment
  <2> QED BY <1>25, <2>1, <2>2, QuietType DEF ExpressionStatementStart
<1>26. CASE ExpressionStatementEnd
  <2>1. Control'
    BY <1>26, FinishType, MakeNodeType, NodeTypes
    DEF TypeOK, ExpressionStatementEnd, Expect, Missing, Returned, Results,
        Frames, ExpressionFrames, StatementFrames, Calls, Levels
  <2>2. MovesInside
    BY <1>26, Ahead
    DEF MovesInside, Consume, Fail, NoLexeme, TypeOK, ExpressionStatementEnd,
        Expect, Missing
  <2> QED BY <1>26, <2>1, <2>2, QuietType DEF ExpressionStatementEnd
<1> QED BY <1>1, <1>2, <1>3, <1>4, <1>5, <1>6, <1>7, <1>8, <1>9, <1>10, <1>11,
   <1>12, <1>13, <1>14, <1>15, <1>16, <1>17, <1>18, <1>19, <1>20, <1>21,
   <1>22, <1>23, <1>24, <1>25, <1>26
  DEF StatementNext

\* ... and the expressions.
LEMMA ExpressionNextType ==
  ASSUME TypeOK, ExpressionNext
  PROVE  TypeOK'
<1>1. CASE Descend
  <2>1. Control'
    BY <1>1, WaitAtType, NodeTypes, LevelTypes
    DEF TypeOK, Descend, Results, Frames, ExpressionFrames, StatementFrames,
        Calls, Levels, Node
  <2>2. MovesInside
    BY <1>1, Ahead
    DEF MovesInside, Consume, Fail, NoLexeme, TypeOK, Descend
  <2> QED BY <1>1, <2>1, <2>2, QuietType DEF Descend
<1>2. CASE AssignmentTarget
  <2>1. Control'
    BY <1>2, MoveToType, FinishType
    DEF TypeOK, AssignmentTarget, Returned, Results, Frames, ExpressionFrames,
        StatementFrames, Calls, Levels, Node
  <2>2. MovesInside
    BY <1>2, Ahead
    DEF MovesInside, Consume, Fail, NoLexeme, TypeOK, AssignmentTarget
  <2> QED BY <1>2, <2>1, <2>2, QuietType DEF AssignmentTarget
<1>3. CASE AssignmentValue
  <2>1. Control'
    BY <1>3, FinishType, MakeNodeType, NodeTypes, PopType
    DEF TypeOK, AssignmentValue, Returned, Results, Frames, ExpressionFrames,
        StatementFrames, Calls, Levels, Frame, Node
  <2>2. MovesInside
    BY <1>3, Ahead
    DEF MovesInside, Consume, Fail, NoLexeme, TypeOK, AssignmentValue
  <2> QED BY <1>3, <2>1, <2>2, QuietType DEF AssignmentValue
<1>4. CASE BinaryOperand
  <2>1. Control'
    <3>1. PICK at \in BinaryLevels :
            /\ Returned(at)
            /\ LET left == IF Top.node = NoNode THEN ret
                           ELSE MakeNode({Top.node, ret}, {})
               IN MoveTo(at, left, Operand(at)) \/ Finish(left)
      BY <1>4 DEF BinaryOperand
    <3> DEFINE left == IF Top.node = NoNode THEN ret
                       ELSE MakeNode({Top.node, ret}, {})
    <3>2. stack # <<>>
      BY <3>1 DEF Returned
    <3>3. left \in Results
      BY MakeNodeType, NodeTypes DEF TypeOK, Results
    <3>4. at \in Frames /\ Operand(at) \in Calls
      BY LevelTypes DEF Levels
    <3> HIDE DEF left
    <3> QED BY <3>1, <3>2, <3>3, <3>4, MoveToType, FinishType DEF left
  <2>2. MovesInside
    BY <1>4, Ahead, KeywordsAreLexemes
    DEF MovesInside, Consume, Fail, NoLexeme, TypeOK, BinaryOperand
  <2> QED BY <1>4, <2>1, <2>2, QuietType DEF BinaryOperand
<1>5. CASE UnaryStart
  <2>1. Control'
    BY <1>5, WaitAtType, TailCallType, NodeTypes
    DEF TypeOK, UnaryStart, Results, Frames, ExpressionFrames,
        StatementFrames, Calls, Levels, Node
  <2>2. MovesInside
    BY <1>5, Ahead
    DEF MovesInside, Consume, Fail, NoLexeme, TypeOK, UnaryStart
  <2> QED BY <1>5, <2>1, <2>2, QuietType DEF UnaryStart
<1>6. CASE UnaryEnd
  <2>1. Control'
    BY <1>6, FinishType, MakeNodeType, NodeTypes
    DEF TypeOK, UnaryEnd, Returned, Results, Frames, ExpressionFrames,
        StatementFrames, Calls, Levels, Node
  <2>2. MovesInside
    BY <1>6, Ahead
    DEF MovesInside, Consume, Fail, NoLexeme, TypeOK, UnaryEnd
  <2> QED BY <1>6, <2>1, <2>2, QuietType DEF UnaryEnd
<1>7. CASE CallCallee
  <2>1. Control'
    BY <1>7, MoveToType, ReturnType, FinishType, MakeNodeType, NodeTypes
    DEF TypeOK, CallCallee, Returned, Results, Frames, ExpressionFrames,
        StatementFrames, Calls, Levels, Node
  <2>2. MovesInside
    BY <1>7, Ahead
    DEF MovesInside, Consume, Fail, NoLexeme, TypeOK, CallCallee
  <2> QED BY <1>7, <2>1, <2>2, QuietType DEF CallCallee
<1>8. CASE CallArgument
  <2>1. Control'
    BY <1>8, MoveToType, CallMadeType, MakeNodeType, NodeTypes, PopType
    DEF TypeOK, CallArgument, Returned, Results, Frames, ExpressionFrames,
        StatementFrames, Calls, Levels, Frame, Node
  <2>2. MovesInside
    BY <1>8, Ahead
    DEF MovesInside, Consume, Fail, NoLexeme, TypeOK, CallArgument
  <2> QED BY <1>8, <2>1, <2>2, QuietType DEF CallArgument
<1>9. CASE Primary
  <2>1. Control'
    BY <1>9, WaitAtType, ReturnType, NodeTypes
    DEF TypeOK, Primary, Results, Frames, ExpressionFrames, StatementFrames,
        Calls, Levels, Node
  <2>2. MovesInside
    BY <1>9, Ahead
    DEF MovesInside, Consume, Fail, NoLexeme, TypeOK, Primary
  <2> QED BY <1>9, <2>1, <2>2, QuietType DEF Primary
<1>10. CASE ParenEnd
  <2>1. Control'
    BY <1>10, FinishType, NodeTypes
    DEF TypeOK, ParenEnd, Expect, Missing, Returned, Results, Frames,
        ExpressionFrames, StatementFrames, Calls, Levels, Node
  <2>2. MovesInside
    BY <1>10, Ahead
    DEF MovesInside, Consume, Fail, NoLexeme, TypeOK, ParenEnd, Expect,
        Missing
  <2> QED BY <1>10, <2>1, <2>2, QuietType DEF ParenEnd
<1> QED BY <1>1, <1>2, <1>3, <1>4, <1>5, <1>6, <1>7, <1>8, <1>9, <1>10
  DEF ExpressionNext

(***************************************************************************)
(* Type correctness for every set of token streams: in particular the      *)
(* cursor never leaves the stream, which peekToken, getNextToken and the   *)
(* callers that test lookahead and then consume it rely on.                *)
(***************************************************************************)
THEOREM Typing == Spec => []TypeOK
<1>1. Init => TypeOK
  <2> SUFFICES ASSUME Init PROVE TypeOK
    OBVIOUS
  <2>1. tokens \in Seq(Token) /\ 0 \in 0 .. Len(tokens)
    BY InputsAssumption DEF Init
  <2>2. stack \in Seq(Frame) /\ functions \in Seq(Node)
    BY EmptySeq DEF Init
  <2>3. call \in Calls /\ ret \in Results
    BY DEF Init, Calls, Results
  <2> QED BY <2>1, <2>2, <2>3 DEF Init, TypeOK, Results
<1>2. TypeOK /\ [Next]_vars => TypeOK'
  <2> SUFFICES ASSUME TypeOK, [Next]_vars PROVE TypeOK'
    OBVIOUS
  <2>1. CASE UNCHANGED vars
    BY <2>1 DEF TypeOK, vars
  <2> QED BY <2>1, FunctionNextType, StatementNextType, ExpressionNextType
             DEF Next, Terminated
<1> QED BY <1>1, <1>2, PTL DEF Spec

-----------------------------------------------------------------------------
(* What a parser that reports no error hands over: no null result is       *)
(* unreported and no accepted tree has a null operand.                     *)

Clean(node) == node \notin {"null", "hollow"}

FunctionCalls == {"parseFunction", "parseParameterList", "parseFunctionBody"}

(***************************************************************************)
(* While no error is reported: partial nodes are whole, and a null result  *)
(* is on its way to one of the two callers that expect it.  That the       *)
(* activation on top is such a caller has to be known from the moment the  *)
(* function that may return null silently is called.                       *)
(***************************************************************************)
Whole ==
  /\ \A i \in 1 .. Len(stack) : Clean(stack[i].node)
  /\ ret # "hollow"
  /\ call \in FunctionCalls => stack # <<>> /\ Top.at = "program function"
  /\ call = "parseStatement" => stack # <<>> /\ Top.at \in StatementFrames
  /\ call = "return" /\ ret = "null" =>
       /\ stack # <<>>
       /\ \/ Top.at = "program function"
          \/ AtEnd(pos) /\ Top.at \in StatementFrames

WholeFunctions == \A i \in 1 .. Len(functions) : Clean(functions[i])

TreeInv == hadError \/ (Whole /\ WholeFunctions)

-----------------------------------------------------------------------------
(* The control operators *)

\* A frame that is pushed or put in the place of the one on top.
LEMMA WholePush ==
  ASSUME NEW s \in Seq(Frame), \A i \in 1 .. Len(s) : Clean(s[i].node),
         NEW at \in Frames, NEW node \in Results, Clean(node),
         stack' = Append(s, [at |-> at, node |-> node])
  PROVE  /\ \A i \in 1 .. Len(stack') : Clean(stack'[i].node)
         /\ stack' # <<>>
         /\ Top'.at = at
<1>1. Len(s) \in Nat /\ Len(stack') = Len(s) + 1
  BY PushType
<1>2. stack'[Len(s) + 1] = [at |-> at, node |-> node]
  BY PushType
<1>3. \A i \in 1 .. Len(s) : stack'[i] = s[i]
  BY PushType
<1>4. \A i \in 1 .. Len(stack') : Clean(stack'[i].node)
  <2> SUFFICES ASSUME NEW i \in 1 .. Len(s) + 1 PROVE Clean(stack'[i].node)
    BY <1>1
  <2>1. CASE i = Len(s) + 1
    BY <2>1, <1>2
  <2>2. CASE i \in 1 .. Len(s)
    BY <2>2, <1>3
  <2> QED BY <2>1, <2>2, <1>1
<1> QED BY <1>1, <1>2, <1>4 DEF Top

LEMMA WholePop ==
  ASSUME TypeOK, Whole, stack # <<>>
  PROVE  /\ Popped \in Seq(Frame)
         /\ \A i \in 1 .. Len(Popped) : Clean(Popped[i].node)
         /\ Clean(Top.node)
<1>1. Len(stack) \in Nat \ {0} /\ Len(Popped) = Len(stack) - 1
  BY PopType DEF TypeOK
<1>2. \A i \in 1 .. Len(stack) : Clean(stack[i].node)
  BY DEF Whole
<1>3. \A i \in 1 .. Len(Popped) : i \in 1 .. Len(stack) /\ Popped[i] = stack[i]
  BY <1>1, PopType DEF TypeOK
<1>4. Len(stack) \in 1 .. Len(stack)
  BY <1>1
<1>5. Clean(Top.node)
  BY <1>2, <1>4 DEF Top
<1>6. \A i \in 1 .. Len(Popped) : Clean(Popped[i].node)
  BY <1>2, <1>3
<1> QED BY <1>5, <1>6, PopType DEF TypeOK

LEMMA WholeWaitAt ==
  ASSUME TypeOK, Whole, NEW at \in Frames, NEW node \in Results, Clean(node),
         NEW callee, WaitAt(at, node, callee),
         callee \in FunctionCalls => at = "program function",
         callee = "parseStatement" => at \in StatementFrames
  PROVE  Whole'
<1>1. /\ \A i \in 1 .. Len(stack') : Clean(stack'[i].node)
      /\ stack' # <<>> /\ Top'.at = at
  BY WholePush DEF WaitAt, TypeOK, Whole
<1> QED BY <1>1 DEF WaitAt, Whole, NoNode

LEMMA WholeMoveTo ==
  ASSUME TypeOK, Whole, stack # <<>>, NEW at \in Frames, NEW node \in Results,
         Clean(node), NEW callee, MoveTo(at, node, callee),
         callee \notin FunctionCalls,
         callee = "parseStatement" => at \in StatementFrames
  PROVE  Whole'
<1>1. /\ \A i \in 1 .. Len(stack') : Clean(stack'[i].node)
      /\ stack' # <<>> /\ Top'.at = at
  BY WholePush, WholePop DEF MoveTo
<1> QED BY <1>1 DEF MoveTo, Whole, NoNode

LEMMA WholeTailCall ==
  ASSUME TypeOK, Whole, NEW callee, TailCall(callee),
         callee \in FunctionCalls => stack # <<>> /\ Top.at = "program function",
         callee = "parseStatement" => stack # <<>> /\ Top.at \in StatementFrames
  PROVE  Whole'
BY DEF TailCall, Whole, NoNode, Top

LEMMA WholeReturn ==
  ASSUME TypeOK, Whole, NEW node, node # "hollow", Return(node), UNCHANGED tokens,
         node = "null" =>
           /\ stack # <<>>
           /\ \/ Top.at = "program function"
              \/ AtEnd(pos)' /\ Top.at \in StatementFrames
  PROVE  Whole'
BY DEF Return, Whole, FunctionCalls, Top

LEMMA WholeFinish ==
  ASSUME TypeOK, Whole, stack # <<>>, NEW node, Clean(node), Finish(node)
  PROVE  Whole'
BY WholePop DEF Finish, Whole, Clean, FunctionCalls

LEMMA WholeCallMade ==
  ASSUME TypeOK, Whole, stack # <<>>, NEW node \in Results, Clean(node),
         CallMade(node)
  PROVE  Whole'
<1>1. "parseCall" \in Frames /\ NoNode \in Results /\ Clean(NoNode)
  BY DEF Frames, ExpressionFrames, Levels, Results, Clean, NoNode
<1>2. /\ \A i \in 1 .. Len(stack') : Clean(stack'[i].node)
      /\ stack' # <<>>
  BY <1>1, WholePush, WholePop DEF CallMade
<1> QED BY <1>2 DEF CallMade, Whole, Clean, FunctionCalls

\* What makes a node whole.
LEMMA WholeNode ==
  /\ Clean("node") /\ Clean(NoNode) /\ \A a : Clean(a) => a # "hollow"
  /\ \A a, b : a # "hollow" /\ b # "hollow" =>
       MakeNode({}, {a}) = "node" /\ MakeNode({}, {a, b}) = "node"
  /\ \A a, b : Clean(a) /\ Clean(b) =>
       MakeNode({a}, {}) = "node" /\ MakeNode({a, b}, {}) = "node"
BY DEF MakeNode, Clean, NoNode

LEMMA WholeResult ==
  ASSUME Whole PROVE ret # "hollow"
BY DEF Whole

\* Guarded children leave a node whole, whatever was parsed.
LEMMA WholeParts ==
  ASSUME TypeOK, Whole
  PROVE  /\ MakeNode({}, {ret}) = "node"
         /\ stack # <<>> => MakeNode({}, {Top.node, ret}) = "node"
<1>1. MakeNode({}, {ret}) = "node"
  BY WholeNode, WholeResult
<1>2. stack # <<>> => Top.node # "hollow"
  BY WholePop, WholeNode
<1>3. stack # <<>> => MakeNode({}, {Top.node, ret}) = "node"
  BY <1>2, WholeNode, WholeResult
<1> QED BY <1>1, <1>3

\* Where the header of a statement leads: to an expression, or to a body.
LEMMA HeaderCallees ==
  /\ \A p, stop : Optional(p, stop) \notin FunctionCalls \cup {"parseStatement"}
  /\ \A p : Body(p) \notin FunctionCalls
  /\ {"if then", "if else", "while body", "for body"} \subseteq StatementFrames
BY DEF Optional, Body, FunctionCalls, StatementFrames

\* A header whose part is whole and whose next lexeme is there goes on.
LEMMA WholeHeader ==
  ASSUME TypeOK, Whole, ~hadError', stack # <<>>,
         NEW at \in StatementFrames \cup {"for condition", "for increment"},
         NEW callee, callee \notin FunctionCalls,
         callee = "parseStatement" => at \in StatementFrames,
         NEW lexeme, MoveTo(at, "node", callee) \/ Missing(lexeme)
  PROVE  Whole'
<1>1. MoveTo(at, "node", callee)
  BY DEF Missing, Fail
<1>2. at \in Frames
  BY DEF Frames, ExpressionFrames, StatementFrames
<1>3. "node" \in Results
  BY NodeTypes
<1> QED BY <1>1, <1>2, <1>3, WholeMoveTo, WholeNode

\* What the levels call is never a statement.
LEMMA WholeLevels ==
  \A level \in Levels : /\ Operand(level) \notin FunctionCalls
                        /\ Operand(level) # "parseStatement"
                        /\ level \in ExpressionFrames
BY DEF Levels, BinaryLevels, Operand, FunctionCalls, ExpressionFrames

\* An operand is never null without an error.
LEMMA WholeOperand ==
  ASSUME TypeOK, Whole, call = "return", stack # <<>>,
         Top.at \in ExpressionFrames
  PROVE  Clean(ret)
BY DEF Whole, Clean, ExpressionFrames, StatementFrames, Levels, BinaryLevels

-----------------------------------------------------------------------------
(* One step per action *)


\* hadError_ is never reset, and only parse adds a function.
LEMMA ErrorStays ==
  ASSUME Next, hadError PROVE hadError'
<1>1. CASE FunctionNext
  BY <1>1 DEF FunctionNext, ProgramLoop, ProgramAddFunction,
     ProgramRetryAsStatement, ProgramAfterStatement, Recover, Synchronize,
     FunctionHeader, Parameter, ParameterListEnd, FunctionBody, Consume, Fail
<1>2. CASE StatementNext
  BY <1>2 DEF StatementNext, BlockStart, BlockStatement, BlockAdd, BlockEnd,
     StatementAtEnd, NestedBlock, BodyDone, IfStart, HeaderStart, IfCondition,
     HeaderEnd, Missing, IfThen, WhileStart, WhileCondition, ForStart,
     ForInit, ForDeclaration, ForCondition, ForIncrement, ReturnStart,
     DeclarationKeyword, DeclarationLike, TypedDeclaration,
     ExpressionThenSemicolon, Expect, AssignmentStart, AssignmentEnd,
     ExpressionStatementStart, ExpressionStatementEnd, Consume, Fail
<1>3. CASE ExpressionNext
  BY <1>3 DEF ExpressionNext, Descend, AssignmentTarget, AssignmentValue,
     BinaryOperand, UnaryStart, UnaryEnd, CallCallee, CallArgument, Primary,
     ParenEnd, Expect, Missing, Consume, Fail
<1>4. CASE Terminated
  BY <1>4 DEF Terminated, vars
<1> QED BY <1>1, <1>2, <1>3, <1>4 DEF Next

LEMMA FunctionsKept ==
  ASSUME Next, ~ProgramAddFunction PROVE UNCHANGED functions
<1>1. CASE FunctionNext
  BY <1>1 DEF FunctionNext, ProgramLoop, ProgramAddFunction,
     ProgramRetryAsStatement, ProgramAfterStatement, Recover, Synchronize,
     FunctionHeader, Parameter, ParameterListEnd, FunctionBody, Quiet
<1>2. CASE StatementNext
  BY <1>2 DEF StatementNext, BlockStart, BlockStatement, BlockAdd, BlockEnd,
     StatementAtEnd, NestedBlock, BodyDone, IfStart, HeaderStart, IfCondition,
     HeaderEnd, Missing, IfThen, WhileStart, WhileCondition, ForStart,
     ForInit, ForDeclaration, ForCondition, ForIncrement, ReturnStart,
     DeclarationKeyword, DeclarationLike, TypedDeclaration,
     ExpressionThenSemicolon, Expect, AssignmentStart, AssignmentEnd,
     ExpressionStatementStart, ExpressionStatementEnd, Quiet
<1>3. CASE ExpressionNext
  BY <1>3 DEF ExpressionNext, Descend, AssignmentTarget, AssignmentValue,
     BinaryOperand, UnaryStart, UnaryEnd, CallCallee, CallArgument, Primary,
     ParenEnd, Expect, Missing, Quiet
<1>4. CASE Terminated
  BY <1>4 DEF Terminated, vars
<1> QED BY <1>1, <1>2, <1>3, <1>4 DEF Next

\* parse and the parts of parseFunction keep what is built whole.
LEMMA FunctionNextWhole ==
  ASSUME TypeOK, Whole, FunctionNext, ~hadError'
  PROVE  Whole'
<1>1. CASE ProgramLoop
  BY <1>1, WholeWaitAt, WholeTailCall, NodeTypes
  DEF ProgramLoop, Quiet, Fail, Clean, NoNode, FunctionCalls, Results, Frames,
      ExpressionFrames, StatementFrames, Levels, TypeOK, Whole
<1>2. CASE ProgramAddFunction
  BY <1>2, NodeTypes, WholePop
  DEF ProgramAddFunction, Returned, Quiet, Fail, Clean, NoNode, FunctionCalls,
      Results, Frames, ExpressionFrames, StatementFrames, Levels, TypeOK,
      Whole
<1>3. CASE ProgramRetryAsStatement
  BY <1>3, WholeMoveTo, NodeTypes
  DEF ProgramRetryAsStatement, Returned, Quiet, Fail, Clean, NoNode,
      FunctionCalls, Results, Frames, ExpressionFrames, StatementFrames,
      Levels, TypeOK
<1>4. CASE ProgramAfterStatement
  BY <1>4, NodeTypes, WholePop
  DEF ProgramAfterStatement, Returned, Quiet, Fail, Clean, NoNode,
      FunctionCalls, Results, Frames, ExpressionFrames, StatementFrames,
      Levels, TypeOK, Whole
<1>5. CASE Recover
  BY <1>5, WholeTailCall, NodeTypes
  DEF Recover, Returned, Quiet, Fail, Clean, NoNode, FunctionCalls, Results,
      Frames, ExpressionFrames, StatementFrames, Levels, TypeOK, Whole
<1>6. CASE Synchronize
  BY <1>6, WholeTailCall, WholeReturn, NodeTypes
  DEF Synchronize, Quiet, Fail, Clean, NoNode, FunctionCalls, Results, Frames,
      ExpressionFrames, StatementFrames, Levels, TypeOK, Whole
<1>7. CASE FunctionHeader
  BY <1>7, WholeTailCall, WholeReturn, NodeTypes
  DEF FunctionHeader, Quiet, Fail, Clean, NoNode, FunctionCalls, Results,
      Frames, ExpressionFrames, StatementFrames, Levels, TypeOK, Whole
<1>8. CASE Parameter
  BY <1>8, WholeTailCall
  DEF Parameter, Quiet, Fail, Clean, NoNode, FunctionCalls, Results, Frames,
      ExpressionFrames, StatementFrames, Levels, TypeOK, Whole
<1>9. CASE ParameterListEnd
  BY <1>9, WholeTailCall
  DEF ParameterListEnd, Quiet, Fail, Clean, NoNode, FunctionCalls, Results,
      Frames, ExpressionFrames, StatementFrames, Levels, TypeOK, Whole
<1>10. CASE FunctionBody
  BY <1>10, WholeWaitAt, WholeReturn, NodeTypes
  DEF FunctionBody, Quiet, Fail, Clean, NoNode, FunctionCalls, Results,
      Frames, ExpressionFrames, StatementFrames, Levels, TypeOK, Whole
<1> QED BY <1>1, <1>2, <1>3, <1>4, <1>5, <1>6, <1>7, <1>8, <1>9, <1>10
  DEF FunctionNext

\* So do the statements ...
LEMMA StatementNextWhole ==
  ASSUME TypeOK, Whole, StatementNext, ~hadError'
  PROVE  Whole'
<1>1. CASE BlockStart
  BY <1>1, WholeWaitAt, NodeTypes
  DEF BlockStart, Quiet, Fail, Clean, NoNode, FunctionCalls, Results, Frames,
      ExpressionFrames, StatementFrames, Levels, TypeOK
<1>2. CASE BlockStatement
  BY <1>2, WholeTailCall, NodeTypes
  DEF BlockStatement, Returned, Quiet, Fail, Clean, NoNode, FunctionCalls,
      Results, Frames, ExpressionFrames, StatementFrames, Levels, TypeOK,
      Whole
<1>3. CASE BlockAdd
  <2>1. stack # <<>> /\ MoveTo("block", "node", "return")
    BY <1>3, WholeParts DEF BlockAdd, Returned
  <2> QED BY <2>1, WholeMoveTo, WholeNode, NodeTypes
          DEF Optional, FunctionCalls, Frames, ExpressionFrames, StatementFrames
<1>4. CASE BlockEnd
  BY <1>4, WholeFinish, NodeTypes, WholePop, PopType
  DEF BlockEnd, Returned, Quiet, Fail, Clean, NoNode, FunctionCalls, Results,
      Frames, ExpressionFrames, StatementFrames, Levels, TypeOK, Frame
<1>5. CASE StatementAtEnd
  BY <1>5, WholeReturn, NodeTypes
  DEF StatementAtEnd, Quiet, Fail, Clean, NoNode, FunctionCalls, Results,
      Frames, ExpressionFrames, StatementFrames, Levels, TypeOK, Whole, AtEnd,
      Consume
<1>6. CASE NestedBlock
  BY <1>6, WholeTailCall
  DEF NestedBlock, Quiet, Fail, Clean, NoNode, FunctionCalls, Results, Frames,
      ExpressionFrames, StatementFrames, Levels, TypeOK, Whole
<1>7. CASE BodyDone
  <2>1. stack # <<>> /\ Finish("node")
    BY <1>7, WholeParts DEF BodyDone, Returned
  <2> QED BY <2>1, WholeFinish, WholeNode
<1>8. CASE IfStart
  BY <1>8, WholeWaitAt, WholeReturn, NodeTypes
  DEF IfStart, HeaderStart, Quiet, Fail, Clean, NoNode, FunctionCalls,
      Results, Frames, ExpressionFrames, StatementFrames, Levels, TypeOK,
      Whole
<1>9. CASE IfCondition
  <2>1. /\ stack # <<>>
        /\ MoveTo("if then", "node", Body(pos + 1)) \/ Missing(")")
    BY <1>9, WholeParts DEF IfCondition, HeaderEnd, Returned
  <2> QED BY <2>1, WholeHeader, HeaderCallees
<1>10. CASE IfThen
  <2>1. /\ stack # <<>>
        /\ MoveTo("if else", "node", Body(pos + 1)) \/ Finish("node")
    BY <1>10, WholeParts DEF IfThen, Returned
  <2>2. CASE MoveTo("if else", "node", Body(pos + 1))
    BY <2>1, <2>2, WholeHeader, HeaderCallees
  <2>3. CASE Finish("node")
    BY <2>1, <2>3, WholeFinish, WholeNode
  <2> QED BY <2>1, <2>2, <2>3
<1>11. CASE WhileStart
  BY <1>11, WholeWaitAt, WholeReturn, NodeTypes
  DEF WhileStart, HeaderStart, Quiet, Fail, Clean, NoNode, FunctionCalls,
      Results, Frames, ExpressionFrames, StatementFrames, Levels, TypeOK,
      Whole
<1>12. CASE WhileCondition
  <2>1. /\ stack # <<>>
        /\ MoveTo("while body", "node", Body(pos + 1)) \/ Missing(")")
    BY <1>12, WholeParts DEF WhileCondition, HeaderEnd, Returned
  <2> QED BY <2>1, WholeHeader, HeaderCallees
<1>13. CASE ForStart
  BY <1>13, WholeWaitAt, WholeReturn, NodeTypes
  DEF ForStart, Optional, Quiet, Fail, Clean, NoNode, FunctionCalls, Results,
      Frames, ExpressionFrames, StatementFrames, Levels, TypeOK, Whole
<1>14. CASE ForInit
  <2>1. /\ stack # <<>>
        /\ MoveTo("for condition", "node", Optional(pos + 1, ";")) \/ Missing(";")
    BY <1>14, WholeParts DEF ForInit, Returned
  <2> QED BY <2>1, WholeHeader, HeaderCallees
<1>15. CASE ForDeclaration
  <2>1. stack # <<>> /\ MoveTo("for condition", "node", Optional(pos, ";"))
    BY <1>15, WholeParts DEF ForDeclaration, Returned
  <2> QED BY <2>1, WholeHeader, HeaderCallees
<1>16. CASE ForCondition
  <2>1. /\ stack # <<>>
        /\ MoveTo("for increment", "node", Optional(pos + 1, ")")) \/ Missing(";")
    BY <1>16, WholeParts DEF ForCondition, Returned
  <2> QED BY <2>1, WholeHeader, HeaderCallees
<1>17. CASE ForIncrement
  <2>1. /\ stack # <<>>
        /\ MoveTo("for body", "node", Body(pos + 1)) \/ Missing(")")
    BY <1>17, WholeParts DEF ForIncrement, HeaderEnd, Returned
  <2> QED BY <2>1, WholeHeader, HeaderCallees
<1>18. CASE ReturnStart
  BY <1>18, WholeWaitAt, WholeReturn, NodeTypes
  DEF ReturnStart, Quiet, Fail, Clean, NoNode, FunctionCalls, Results, Frames,
      ExpressionFrames, StatementFrames, Levels, TypeOK, Whole
<1>19. CASE DeclarationKeyword
  BY <1>19, WholeTailCall
  DEF DeclarationKeyword, Quiet, Fail, Clean, NoNode, FunctionCalls, Results,
      Frames, ExpressionFrames, StatementFrames, Levels, TypeOK, Whole
<1>20. CASE DeclarationLike
  BY <1>20, WholeWaitAt, WholeReturn, NodeTypes
  DEF DeclarationLike, Quiet, Fail, Clean, NoNode, FunctionCalls, Results,
      Frames, ExpressionFrames, StatementFrames, Levels, TypeOK, Whole
<1>21. CASE TypedDeclaration
  BY <1>21, WholeWaitAt, WholeReturn, NodeTypes
  DEF TypedDeclaration, Quiet, Fail, Clean, NoNode, FunctionCalls, Results,
      Frames, ExpressionFrames, StatementFrames, Levels, TypeOK, Whole
<1>22. CASE ExpressionThenSemicolon
  BY <1>22, WholeFinish, WholeParts, WholeNode, NodeTypes, WholeOperand
  DEF ExpressionThenSemicolon, Expect, Missing, Returned, Quiet, Fail, NoNode,
      FunctionCalls, Results, Frames, ExpressionFrames, StatementFrames,
      Levels
<1>23. CASE AssignmentStart
  BY <1>23, WholeWaitAt, NodeTypes
  DEF AssignmentStart, Quiet, Fail, Clean, NoNode, FunctionCalls, Results,
      Frames, ExpressionFrames, StatementFrames, Levels, TypeOK
<1>24. CASE AssignmentEnd
  BY <1>24, WholeFinish, WholeResult, WholeNode, NodeTypes, WholeOperand
  DEF AssignmentEnd, Expect, Missing, Returned, Quiet, Fail, NoNode,
      FunctionCalls, Results, Frames, ExpressionFrames, StatementFrames,
      Levels, TypeOK
<1>25. CASE ExpressionStatementStart
  BY <1>25, WholeWaitAt, NodeTypes
  DEF ExpressionStatementStart, Quiet, Fail, Clean, NoNode, FunctionCalls,
      Results, Frames, ExpressionFrames, StatementFrames, Levels, TypeOK
<1>26. CASE ExpressionStatementEnd
  BY <1>26, WholeFinish, WholeParts, WholeNode, NodeTypes, WholeOperand
  DEF ExpressionStatementEnd, Expect, Missing, Returned, Quiet, Fail, NoNode,
      FunctionCalls, Results, Frames, ExpressionFrames, StatementFrames,
      Levels
<1> QED BY <1>1, <1>2, <1>3, <1>4, <1>5, <1>6, <1>7, <1>8, <1>9, <1>10, <1>11,
   <1>12, <1>13, <1>14, <1>15, <1>16, <1>17, <1>18, <1>19, <1>20, <1>21,
   <1>22, <1>23, <1>24, <1>25, <1>26
  DEF StatementNext

\* ... and the expressions.
LEMMA ExpressionNextWhole ==
  ASSUME TypeOK, Whole, ExpressionNext, ~hadError'
  PROVE  Whole'
<1>1. CASE Descend
  BY <1>1, WholeWaitAt, NodeTypes, LevelTypes, WholeLevels, WholeNode,
     WholeOperand
  DEF Descend, Quiet, Fail, NoNode, Results, Levels, TypeOK, Node
<1>2. CASE AssignmentTarget
  BY <1>2, WholeMoveTo, WholeFinish, WholeOperand
  DEF AssignmentTarget, Returned, Quiet, Fail, Clean, NoNode, FunctionCalls,
      Results, Frames, ExpressionFrames, StatementFrames, Levels, TypeOK, Node
<1>3. CASE AssignmentValue
  BY <1>3, WholeFinish, WholeResult, WholeNode, NodeTypes, WholePop,
     WholeOperand, PopType
  DEF AssignmentValue, Returned, Quiet, Fail, NoNode, FunctionCalls, Results,
      Frames, ExpressionFrames, StatementFrames, Levels, TypeOK, Frame, Node
<1>4. CASE BinaryOperand
  BY <1>4, WholeMoveTo, WholeFinish, WholeResult, WholeNode, NodeTypes,
     LevelTypes, WholeLevels, WholePop, WholeOperand, PopType
  DEF BinaryOperand, Returned, Quiet, Fail, NoNode, Results, Levels,
      BinaryLevels, TypeOK, Frame, Node
<1>5. CASE UnaryStart
  BY <1>5, WholeWaitAt, WholeTailCall, NodeTypes, WholeOperand
  DEF UnaryStart, Quiet, Fail, Clean, NoNode, FunctionCalls, Results, Frames,
      ExpressionFrames, StatementFrames, Levels, TypeOK, Whole, Node
<1>6. CASE UnaryEnd
  BY <1>6, WholeFinish, WholeResult, WholeNode, NodeTypes, WholeOperand
  DEF UnaryEnd, Returned, Quiet, Fail, NoNode, FunctionCalls, Results, Frames,
      ExpressionFrames, StatementFrames, Levels, TypeOK, Node
<1>7. CASE CallCallee
  BY <1>7, WholeMoveTo, WholeReturn, WholeFinish, WholeParts, WholeNode,
     NodeTypes, WholeOperand
  DEF CallCallee, Returned, Quiet, Fail, NoNode, FunctionCalls, Results,
      Frames, ExpressionFrames, StatementFrames, Levels, Whole, Node
<1>8. CASE CallArgument
  <2>1. stack # <<>> /\ MakeNode({}, {Top.node, ret}) = "node"
    BY <1>8, WholeParts DEF CallArgument, Returned
  <2>2. \/ MoveTo("call argument", "node", "parseExpression")
        \/ CallMade("node")
        \/ hadError' = TRUE
    BY <1>8, <2>1 DEF CallArgument, Fail
  <2>3. "call argument" \in Frames /\ "parseExpression" \notin FunctionCalls
    BY DEF Frames, ExpressionFrames, FunctionCalls
  <2>4. CASE MoveTo("call argument", "node", "parseExpression")
    BY <2>1, <2>3, <2>4, WholeMoveTo, WholeNode, NodeTypes
  <2>5. CASE CallMade("node")
    BY <2>1, <2>5, WholeCallMade, WholeNode, NodeTypes
  <2>6. CASE hadError' = TRUE
    BY <2>6
  <2> QED BY <2>2, <2>4, <2>5, <2>6
<1>9. CASE Primary
  BY <1>9, WholeWaitAt, WholeReturn, NodeTypes, WholeOperand
  DEF Primary, Quiet, Fail, Clean, NoNode, FunctionCalls, Results, Frames,
      ExpressionFrames, StatementFrames, Levels, TypeOK, Whole, Node
<1>10. CASE ParenEnd
  BY <1>10, WholeFinish, NodeTypes, WholeOperand
  DEF ParenEnd, Expect, Missing, Returned, Quiet, Fail, Clean, NoNode,
      FunctionCalls, Results, Frames, ExpressionFrames, StatementFrames,
      Levels, TypeOK, Node
<1> QED BY <1>1, <1>2, <1>3, <1>4, <1>5, <1>6, <1>7, <1>8, <1>9, <1>10
  DEF ExpressionNext

(***************************************************************************)
(* No accepted tree has a null operand, and no null result is silent, for  *)
(* every set of token streams.                                             *)
(***************************************************************************)
THEOREM TreesAreWhole == Spec => []TreeInv
<1>1. Init => TreeInv
  BY EmptySeq DEF Init, TreeInv, Whole, WholeFunctions, NoNode, FunctionCalls
<1>2. TypeOK /\ TreeInv /\ [Next]_vars => TreeInv'
  <2> SUFFICES ASSUME TypeOK, TreeInv, [Next]_vars, ~hadError' PROVE TreeInv'
    BY DEF TreeInv
  <2>1. CASE UNCHANGED vars
    BY <2>1 DEF vars, TreeInv, Whole, WholeFunctions, Top, AtEnd
  <2>2. CASE Next
    <3>1. ~hadError
      BY <2>2, ErrorStays
    <3>2. Whole'
      <4>1. CASE Terminated
        BY <3>1, <4>1 DEF Terminated, vars, TreeInv, Whole, Top, AtEnd
      <4>2. CASE FunctionNext \/ StatementNext \/ ExpressionNext
        BY <3>1, <4>2, FunctionNextWhole, StatementNextWhole, ExpressionNextWhole
        DEF TreeInv
      <4> QED BY <2>2, <4>1, <4>2 DEF Next
    <3>3. CASE UNCHANGED functions
      BY <3>1, <3>2, <3>3 DEF TreeInv, WholeFunctions
    <3>4. CASE ProgramAddFunction
      <4>1. Clean(ret)
        BY <3>1, <3>4 DEF ProgramAddFunction, TreeInv, Whole, Clean
      <4>2. functions \in Seq(Node) /\ ret \in Node
        BY <3>4 DEF ProgramAddFunction, Returned, TypeOK
      <4>3. functions' = Append(functions, ret)
        BY <3>4 DEF ProgramAddFunction
      <4>4. WholeFunctions
        BY <3>1 DEF TreeInv
      <4>5. WholeFunctions'
        BY <4>1, <4>2, <4>3, <4>4, AppendProperties DEF WholeFunctions
      <4> QED BY <3>2, <4>5 DEF TreeInv
    <3> QED BY <2>2, <3>3, <3>4, FunctionsKept
  <2> QED BY <2>1, <2>2
<1> QED BY <1>1, <1>2, Typing, PTL DEF Spec

\* A null pointer never reaches a caller that does not expect it, unless
\* hadError_ has been set before.
THEOREM NullsAreReported == Spec => []NullIsReported
<1>1. TreeInv => NullIsReported
  BY DEF TreeInv, Whole, NullIsReported
<1> QED BY <1>1, TreesAreWhole, PTL

\* The operands that SemanticAnalyzer and the generators dereference without
\* a check are never null in a program whose parser reports no error.
THEOREM AcceptedTreesNeverHollow == Spec => []AcceptedTreesAreWhole
<1>1. TreeInv => AcceptedTreesAreWhole
  BY DEF TreeInv, WholeFunctions, AcceptedTreesAreWhole, Clean
<1> QED BY <1>1, TreesAreWhole, PTL
-----------------------------------------------------------------------------
(* The parser recurses only as deep as it has read *)

\* How deep the stack may be when a function starts, over what the tokens
\* that are consumed allow: each level of parseExpression needs one more.
CallCap(callee) ==
  IF callee \in {"parse", "parseParameterList", "parseFunctionBody", "parseBlock"} THEN 0
  ELSE IF callee = "parseExpression" THEN 2
  ELSE IF callee = "parseLogicalOr"  THEN 3
  ELSE IF callee = "parseLogicalAnd" THEN 4
  ELSE IF callee = "parseEquality"   THEN 5
  ELSE IF callee = "parseComparison" THEN 6
  ELSE IF callee = "parseTerm"       THEN 7
  ELSE IF callee = "parseFactor"     THEN 8
  ELSE IF callee \in {"parseUnary", "parseCall"} THEN 9
  ELSE IF callee \in {"parsePrimary", "return", "done"} THEN 10
  ELSE 1

\* The position on the stack that a frame may have.
FrameCap(at) ==
  IF at \in Levels THEN CallCap(at) + 1
  ELSE IF at \in {"paren", "expression"} THEN 2
  ELSE 1

Depth ==
  /\ \A i \in 1 .. Len(stack) : i <= 9 * pos + FrameCap(stack[i].at)
  /\ Len(stack) <= 9 * pos + CallCap(call)

-----------------------------------------------------------------------------
(* The bounds *)

LEMMA CallCaps ==
  /\ \A callee \in Calls : CallCap(callee) \in 0 .. 10
  /\ \A callee \in {"parse", "parseParameterList", "parseFunctionBody", "parseBlock"} :
        callee \in Calls /\ CallCap(callee) = 0
  /\ \A callee \in {"parseFunction", "parseStatement", "parseDeclarationLike",
                    "synchronize"} : callee \in Calls /\ CallCap(callee) = 1
  /\ \A callee \in {"parseUnary", "parseCall"} : callee \in Calls /\ CallCap(callee) = 9
  /\ \A callee \in {"parsePrimary", "return", "done"} :
        callee \in Calls /\ CallCap(callee) = 10
  /\ "parseExpression" \in Calls /\ CallCap("parseExpression") = 2
<1>1. \A callee : CallCap(callee) \in 0 .. 10
  BY DEF CallCap
<1>2. {"parse", "parseParameterList", "parseFunctionBody", "parseBlock",
       "parseFunction", "parseStatement", "parseDeclarationLike", "synchronize",
       "parseUnary", "parseCall", "parsePrimary", "return", "done",
       "parseExpression"} \subseteq Calls
  BY DEF Calls, Levels
<1> QED BY <1>1, <1>2 DEF CallCap

\* Where an activation waits that is the bottom of its expression or statement.
Shallow ==
  { "program function", "program statement", "function body", "block",
    "if condition", "if then", "if else", "while condition", "while body",
    "for declaration", "for init", "for condition", "for increment", "for body",
    "return", "declaration", "typed declaration", "assignment",
    "assignment value", "unary", "call argument" }

LEMMA FrameCaps ==
  /\ \A at \in Levels : at \in Frames /\ FrameCap(at) = CallCap(at) + 1
  /\ \A at \in {"paren", "expression"} : at \in Frames /\ FrameCap(at) = 2
  /\ \A at \in Shallow : at \in Frames /\ FrameCap(at) = 1
<1>1. \A at \in Levels : at \in Frames /\ FrameCap(at) = CallCap(at) + 1
  BY DEF FrameCap, Frames, ExpressionFrames
<1>2. \A at \in {"paren", "expression"} : at \in Frames /\ FrameCap(at) = 2
  BY DEF FrameCap, Levels, BinaryLevels, Frames, ExpressionFrames
<1>3. Shallow \subseteq Frames
  BY DEF Shallow, Frames, ExpressionFrames, StatementFrames
<1>4. \A at \in Shallow : at \notin Levels /\ at \notin {"paren", "expression"}
  BY DEF Shallow, Levels, BinaryLevels
<1>5. \A at \in Shallow : FrameCap(at) = 1
  BY <1>4 DEF FrameCap
<1> QED BY <1>1, <1>2, <1>3, <1>5

LEMMA FrameCapIsInt ==
  ASSUME NEW at \in Frames
  PROVE  FrameCap(at) \in Int /\ FrameCap(at) <= 10 /\ FrameCap(at) >= 1
BY DEF FrameCap, CallCap, Levels, BinaryLevels

LEMMA CallCapIsInt ==
  ASSUME NEW callee
  PROVE  CallCap(callee) \in Int /\ CallCap(callee) >= 0
BY DEF CallCap

\* A level calls the next one, which may be one deeper.
LEMMA LevelCaps ==
  \A at \in Levels : /\ CallCap(Operand(at)) >= CallCap(at) + 1
                     /\ CallCap(Operand(at)) \in 3 .. 10
BY DEF CallCap, Operand, Levels, BinaryLevels

-----------------------------------------------------------------------------
(* The control operators *)

Onward == {p \in Nat : p >= pos}

Beyond == {p \in Nat : p >= pos + 1}

\* The action does not move the cursor back ...
Reads == pos' \in Onward

\* ... or moves it over a token.
Consumes == pos' \in Beyond

\* The frames of a stack, and the bounds that hold for them.
LEMMA StackFacts ==
  ASSUME TypeOK, Depth, Reads
  PROVE  /\ pos \in Nat /\ pos' \in Nat /\ pos' >= pos
         /\ stack \in Seq(Frame) /\ Len(stack) \in Nat
         /\ call \in Calls /\ CallCap(call) \in 0 .. 10
         /\ Len(stack) <= 9 * pos + CallCap(call)
         /\ \A i \in 1 .. Len(stack) : i <= 9 * pos' + FrameCap(stack[i].at)
<1>1. /\ pos \in Nat /\ pos' \in Nat /\ pos' >= pos
      /\ stack \in Seq(Frame) /\ Len(stack) \in Nat
      /\ call \in Calls
  BY DEF TypeOK, Reads, Onward
<1>2. CallCap(call) \in 0 .. 10
  BY <1>1, CallCaps
<1>3. ASSUME NEW i \in 1 .. Len(stack)
      PROVE  i <= 9 * pos' + FrameCap(stack[i].at)
  <2>1. i <= 9 * pos + FrameCap(stack[i].at)
    BY DEF Depth
  <2>2. stack[i] \in Frame
    BY <1>1, ElementOfSeq
  <2>3. stack[i].at \in Frames
    BY <2>2 DEF Frame
  <2>4. FrameCap(stack[i].at) \in Int /\ i \in Int
    BY <2>3, FrameCapIsInt
  <2> QED BY <1>1, <2>1, <2>4
<1> QED BY <1>1, <1>2, <1>3 DEF Depth

\* What an action leaves of the stack keeps its bounds; what it puts on top is
\* given a frame that is deep enough.
LEMMA PushDepth ==
  ASSUME TypeOK, Depth, Reads, NEW s \in Seq(Frame), NEW at \in Frames,
         NEW node \in Results, stack' = Append(s, [at |-> at, node |-> node]),
         \A i \in 1 .. Len(s) : i <= 9 * pos' + FrameCap(s[i].at),
         Len(s) + 1 <= 9 * pos' + FrameCap(at),
         Len(s) + 1 <= 9 * pos' + CallCap(call')
  PROVE  Depth'
<1>1. /\ Len(stack') = Len(s) + 1 /\ Len(s) \in Nat
      /\ \A i \in 1 .. Len(s) : stack'[i] = s[i]
      /\ stack'[Len(s) + 1] = [at |-> at, node |-> node]
  BY PushType
<1>2. ASSUME NEW i \in 1 .. Len(stack')
      PROVE  i <= 9 * pos' + FrameCap(stack'[i].at)
  <2>1. CASE i \in 1 .. Len(s)
    <3>1. stack'[i] = s[i]
      BY <1>1, <2>1
    <3> QED BY <2>1, <3>1
  <2>2. CASE i = Len(s) + 1
    <3>1. stack'[i].at = at
      BY <1>1, <2>2
    <3> QED BY <2>2, <3>1
  <2> QED BY <1>1, <2>1, <2>2
<1> QED BY <1>1, <1>2 DEF Depth

LEMMA WaitAtDepth ==
  ASSUME TypeOK, Depth, Reads, NEW at \in Frames, NEW node \in Results,
         NEW callee \in Calls, WaitAt(at, node, callee),
         9 * pos + CallCap(call) + 1 <= 9 * pos' + FrameCap(at),
         9 * pos + CallCap(call) + 1 <= 9 * pos' + CallCap(callee)
  PROVE  Depth'
<1>1. /\ stack' = Append(stack, [at |-> at, node |-> node]) /\ call' = callee
  BY DEF WaitAt
<1>2. FrameCap(at) \in Int /\ CallCap(callee) \in Int /\ CallCap(call) \in Int
  BY FrameCapIsInt, CallCapIsInt
<1>3. /\ pos \in Nat /\ pos' \in Nat /\ Len(stack) \in Nat
      /\ Len(stack) <= 9 * pos + CallCap(call)
  BY StackFacts
<1>4. Len(stack) + 1 <= 9 * pos' + FrameCap(at)
  BY <1>2, <1>3
<1>5. Len(stack) + 1 <= 9 * pos' + CallCap(callee)
  BY <1>2, <1>3
<1> QED BY <1>1, <1>4, <1>5, StackFacts, PushDepth

\* What is below the top stays where it was.
LEMMA PopDepth ==
  ASSUME TypeOK, Depth, Reads, stack # <<>>
  PROVE  /\ Popped \in Seq(Frame) /\ Len(Popped) = Len(stack) - 1
         /\ Len(stack) \in Nat \ {0}
         /\ \A i \in 1 .. Len(Popped) : i <= 9 * pos' + FrameCap(Popped[i].at)
         /\ Len(stack) <= 9 * pos + FrameCap(Top.at)
         /\ Top.at \in Frames /\ FrameCap(Top.at) \in Int /\ FrameCap(Top.at) <= 10
<1>1. /\ Popped \in Seq(Frame) /\ Len(Popped) = Len(stack) - 1
      /\ Len(stack) \in Nat \ {0} /\ Top \in Frame
      /\ \A i \in 1 .. Len(Popped) : Popped[i] = stack[i]
  BY StackFacts, PopType
<1>2. ASSUME NEW i \in 1 .. Len(Popped)
      PROVE  i <= 9 * pos' + FrameCap(Popped[i].at)
  <2>1. i \in 1 .. Len(stack) /\ Popped[i] = stack[i]
    BY <1>1
  <2> QED BY <2>1, StackFacts
<1>3. Len(stack) <= 9 * pos + FrameCap(Top.at)
  <2>1. Len(stack) \in 1 .. Len(stack)
    BY <1>1
  <2> QED BY <2>1 DEF Depth, Top
<1>4. Top.at \in Frames
  BY <1>1 DEF Frame
<1> QED BY <1>1, <1>2, <1>3, <1>4, FrameCapIsInt

\* The frame on top is replaced by another one.
LEMMA ReplaceDepth ==
  ASSUME TypeOK, Depth, Reads, stack # <<>>, NEW at \in Frames, NEW node \in Results,
         stack' = Append(Popped, [at |-> at, node |-> node]), call' \in Calls,
         9 * pos + FrameCap(Top.at) <= 9 * pos' + FrameCap(at),
         9 * pos + FrameCap(Top.at) <= 9 * pos' + CallCap(call')
  PROVE  Depth'
<1>1. FrameCap(at) \in Int /\ CallCap(call') \in Int /\ FrameCap(Top.at) \in Int
  BY FrameCapIsInt, CallCapIsInt, PopDepth
<1>2. /\ pos \in Nat /\ pos' \in Nat /\ Len(stack) \in Nat
      /\ Len(Popped) = Len(stack) - 1 /\ Len(stack) <= 9 * pos + FrameCap(Top.at)
  BY StackFacts, PopDepth
<1>3. Len(Popped) + 1 <= 9 * pos' + FrameCap(at)
  BY <1>1, <1>2
<1>4. Len(Popped) + 1 <= 9 * pos' + CallCap(call')
  BY <1>1, <1>2
<1> QED BY <1>3, <1>4, PopDepth, PushDepth

LEMMA MoveToDepth ==
  ASSUME TypeOK, Depth, Reads, stack # <<>>, NEW at \in Frames, NEW node \in Results,
         NEW callee \in Calls, MoveTo(at, node, callee),
         9 * pos + FrameCap(Top.at) <= 9 * pos' + FrameCap(at),
         9 * pos + FrameCap(Top.at) <= 9 * pos' + CallCap(callee)
  PROVE  Depth'
<1>1. /\ stack' = Append(Popped, [at |-> at, node |-> node]) /\ call' = callee
  BY DEF MoveTo
<1> QED BY <1>1, ReplaceDepth

\* finishCall waits in the loop of parseCall again, the deepest place there is.
LEMMA CallMadeDepth ==
  ASSUME TypeOK, Depth, Reads, stack # <<>>, NEW node \in Results, CallMade(node)
  PROVE  Depth'
<1>1. /\ stack' = Append(Popped, [at |-> "parseCall", node |-> NoNode])
      /\ call' = "return"
  BY DEF CallMade
<1>2. "parseCall" \in Levels /\ "parseCall" \in Frames /\ NoNode \in Results
  BY DEF Frames, ExpressionFrames, Levels, Results
<1>3. FrameCap("parseCall") = 10 /\ CallCap(call') = 10 /\ call' \in Calls
  <2>1. CallCap("parseCall") = 9 /\ CallCap("return") = 10 /\ "return" \in Calls
    BY CallCaps
  <2>2. FrameCap("parseCall") = CallCap("parseCall") + 1
    BY <1>2, FrameCaps
  <2> QED BY <1>1, <2>1, <2>2
<1>4. 9 * pos + FrameCap(Top.at) <= 9 * pos' + 10
  <2>1. /\ pos \in Nat /\ pos' \in Nat /\ pos' >= pos
        /\ FrameCap(Top.at) \in Int /\ FrameCap(Top.at) <= 10
    BY StackFacts, PopDepth
  <2> QED BY <2>1
<1> QED BY <1>1, <1>2, <1>3, <1>4, ReplaceDepth

\* The stack stays, and so do the bounds of its frames.
LEMMA SameStackDepth ==
  ASSUME TypeOK, Depth, Reads, UNCHANGED stack, Len(stack) <= 9 * pos' + CallCap(call')
  PROVE  Depth'
BY StackFacts DEF Depth

LEMMA TailCallDepth ==
  ASSUME TypeOK, Depth, Reads, NEW callee \in Calls, TailCall(callee),
         9 * pos + CallCap(call) <= 9 * pos' + CallCap(callee)
  PROVE  Depth'
<1>1. UNCHANGED stack /\ call' = callee
  BY DEF TailCall
<1>2. CallCap(callee) \in Int /\ CallCap(call) \in Int
  BY CallCaps, StackFacts
<1>3. /\ pos \in Nat /\ pos' \in Nat /\ Len(stack) \in Nat
      /\ Len(stack) <= 9 * pos + CallCap(call)
  BY StackFacts
<1>4. Len(stack) <= 9 * pos' + CallCap(callee)
  BY <1>2, <1>3
<1> QED BY <1>1, <1>4, SameStackDepth

\* The activation on top calls a function for what it has been handed.
LEMMA ResumeDepth ==
  ASSUME TypeOK, Depth, Reads, stack # <<>>, NEW callee \in Calls, TailCall(callee),
         FrameCap(Top.at) <= CallCap(callee)
  PROVE  Depth'
<1>1. UNCHANGED stack /\ call' = callee
  BY DEF TailCall
<1>2. CallCap(callee) \in Int /\ FrameCap(Top.at) \in Int
  BY CallCaps, PopDepth
<1>3. /\ pos \in Nat /\ pos' \in Nat /\ pos' >= pos /\ Len(stack) \in Nat
      /\ Len(stack) <= 9 * pos + FrameCap(Top.at)
  BY StackFacts, PopDepth
<1>4. Len(stack) <= 9 * pos' + CallCap(callee)
  BY <1>2, <1>3
<1> QED BY <1>1, <1>4, SameStackDepth

LEMMA ReturnDepth ==
  ASSUME TypeOK, Depth, Reads, NEW node, Return(node)
  PROVE  Depth'
<1>1. UNCHANGED stack /\ call' = "return" /\ CallCap("return") = 10
  BY CallCaps DEF Return
<1>2. Len(stack) <= 9 * pos' + 10
  BY StackFacts
<1> QED BY <1>1, <1>2, SameStackDepth

\* A frame is popped, and what runs next is at least as deep as it is.
LEMMA PoppedDepth ==
  ASSUME TypeOK, Depth, Reads, stack # <<>>, stack' = Popped, call' \in Calls,
         FrameCap(Top.at) <= CallCap(call') + 1
  PROVE  Depth'
<1>1. CallCap(call') \in Int /\ FrameCap(Top.at) \in Int
  BY CallCaps, PopDepth
<1>2. /\ pos \in Nat /\ pos' \in Nat /\ pos' >= pos /\ Len(stack) \in Nat
      /\ Len(Popped) = Len(stack) - 1 /\ Len(stack) <= 9 * pos + FrameCap(Top.at)
  BY StackFacts, PopDepth
<1>3. Len(Popped) <= 9 * pos' + CallCap(call')
  BY <1>1, <1>2
<1> QED BY <1>3, PopDepth DEF Depth

LEMMA FinishDepth ==
  ASSUME TypeOK, Depth, Reads, stack # <<>>, NEW node, Finish(node)
  PROVE  Depth'
<1>1. call' = "return" /\ "return" \in Calls /\ CallCap("return") = 10 /\ stack' = Popped
  BY CallCaps DEF Finish
<1>2. FrameCap(Top.at) <= CallCap(call') + 1
  BY <1>1, PopDepth
<1> QED BY <1>1, <1>2, PoppedDepth

-----------------------------------------------------------------------------
(* With a token consumed there is room for nine more activations *)

LEMMA ConsumesReads ==
  ASSUME TypeOK, Consumes
  PROVE  Reads /\ pos \in Nat /\ pos' \in Nat /\ pos' >= pos + 1
BY DEF Consumes, Beyond, Reads, Onward, TypeOK

LEMMA WaitReading ==
  ASSUME TypeOK, Depth, Consumes, NEW at \in Frames, NEW node \in Results,
         NEW callee \in Calls, WaitAt(at, node, callee),
         call \in {"parseFunctionBody", "parseStatement", "parseDeclarationLike"}
  PROVE  Depth'
<1>1. /\ FrameCap(at) \in Int /\ FrameCap(at) >= 1
      /\ CallCap(callee) \in Int /\ CallCap(callee) >= 0
  BY FrameCapIsInt, CallCapIsInt
<1>2. CallCap(call) \in 0 .. 1
  BY CallCaps
<1>3. pos \in Nat /\ pos' \in Nat /\ pos' >= pos + 1
  BY ConsumesReads
<1>4. 9 * pos + CallCap(call) + 1 <= 9 * pos' + FrameCap(at)
  BY <1>1, <1>2, <1>3
<1>5. 9 * pos + CallCap(call) + 1 <= 9 * pos' + CallCap(callee)
  BY <1>1, <1>2, <1>3
<1> QED BY <1>4, <1>5, ConsumesReads, WaitAtDepth

LEMMA MoveReading ==
  ASSUME TypeOK, Depth, Consumes, stack # <<>>, NEW at \in Frames,
         NEW node \in Results, NEW callee \in Calls, MoveTo(at, node, callee),
         \/ Top.at \in Shallow
         \/ callee = "parseExpression"
         \/ Top.at \in Levels /\ callee = Operand(Top.at)
  PROVE  Depth'
<1>1. /\ FrameCap(at) \in Int /\ FrameCap(at) >= 1
      /\ CallCap(callee) \in Int /\ CallCap(callee) >= 0
  BY FrameCapIsInt, CallCapIsInt
<1>2. FrameCap(Top.at) \in Int /\ FrameCap(Top.at) <= 10
  BY ConsumesReads, PopDepth
<1>3. FrameCap(Top.at) <= 9 + CallCap(callee)
  <2>1. CASE Top.at \in Shallow
    <3>1. FrameCap(Top.at) = 1
      BY <2>1, FrameCaps
    <3> QED BY <1>1, <3>1
  <2>2. CASE callee = "parseExpression"
    <3>1. CallCap(callee) = 2
      BY <2>2, CallCaps
    <3> QED BY <1>2, <3>1
  <2>3. CASE Top.at \in Levels /\ callee = Operand(Top.at)
    <3>1. CallCap(callee) >= 3
      BY <2>3, LevelCaps
    <3> QED BY <1>1, <1>2, <3>1
  <2> QED BY <2>1, <2>2, <2>3
<1>4. pos \in Nat /\ pos' \in Nat /\ pos' >= pos + 1
  BY ConsumesReads
<1>5. 9 * pos + FrameCap(Top.at) <= 9 * pos' + FrameCap(at)
  BY <1>1, <1>2, <1>4
<1>6. 9 * pos + FrameCap(Top.at) <= 9 * pos' + CallCap(callee)
  BY <1>1, <1>2, <1>3, <1>4
<1> QED BY <1>5, <1>6, ConsumesReads, MoveToDepth

LEMMA TailReading ==
  ASSUME TypeOK, Depth, Consumes, NEW callee \in Calls, TailCall(callee),
         call \in {"parseFunction", "parseStatement", "synchronize"}
  PROVE  Depth'
<1>1. CallCap(call) = 1 /\ CallCap(callee) \in Int /\ CallCap(callee) >= 0
  BY CallCaps, CallCapIsInt
<1>2. pos \in Nat /\ pos' \in Nat /\ pos' >= pos + 1
  BY ConsumesReads
<1>3. 9 * pos + CallCap(call) <= 9 * pos' + CallCap(callee)
  BY <1>1, <1>2
<1> QED BY <1>3, ConsumesReads, TailCallDepth

-----------------------------------------------------------------------------
(* Without one, the callee has to be allowed more *)

LEMMA WaitInPlace ==
  ASSUME TypeOK, Depth, Reads, NEW at \in Frames, NEW node \in Results,
         NEW callee \in Calls, WaitAt(at, node, callee),
         CallCap(call) + 1 <= FrameCap(at), CallCap(call) + 1 <= CallCap(callee)
  PROVE  Depth'
<1>1. /\ FrameCap(at) \in Int /\ CallCap(call) \in Int /\ CallCap(callee) \in Int
  BY FrameCapIsInt, CallCapIsInt
<1>2. pos \in Nat /\ pos' \in Nat /\ pos' >= pos
  BY StackFacts
<1>3. 9 * pos + CallCap(call) + 1 <= 9 * pos' + FrameCap(at)
  BY <1>1, <1>2
<1>4. 9 * pos + CallCap(call) + 1 <= 9 * pos' + CallCap(callee)
  BY <1>1, <1>2
<1> QED BY <1>3, <1>4, WaitAtDepth

\* parse and parseBlock are at the bottom.
LEMMA LoopWaits ==
  ASSUME TypeOK, Depth, Reads, NEW at \in Shallow, NEW node \in Results,
         NEW callee \in {"parseFunction", "parseStatement", "return"},
         WaitAt(at, node, callee), call \in {"parse", "parseBlock"}
  PROVE  Depth'
<1>1. at \in Frames /\ callee \in Calls
  BY FrameCaps, CallCaps
<1>2. CallCap(call) = 0 /\ FrameCap(at) = 1
  BY FrameCaps, CallCaps
<1>3. CallCap(callee) \in Int /\ CallCap(callee) >= 1
  BY CallCaps
<1> QED BY <1>1, <1>2, <1>3, WaitInPlace

LEMMA MoveInPlace ==
  ASSUME TypeOK, Depth, Reads, stack # <<>>, NEW at \in Frames, NEW node \in Results,
         NEW callee \in {"parseStatement", "parseExpression", "return"},
         MoveTo(at, node, callee), Top.at \in Shallow
  PROVE  Depth'
<1>1. callee \in Calls /\ CallCap(callee) >= 1 /\ FrameCap(Top.at) = 1
  BY CallCaps, FrameCaps
<1>2. FrameCap(at) \in Int /\ FrameCap(at) >= 1 /\ CallCap(callee) \in Int
  BY FrameCapIsInt, CallCapIsInt
<1>3. pos \in Nat /\ pos' \in Nat /\ pos' >= pos
  BY StackFacts
<1>4. 9 * pos + FrameCap(Top.at) <= 9 * pos' + FrameCap(at)
  BY <1>1, <1>2, <1>3
<1>5. 9 * pos + FrameCap(Top.at) <= 9 * pos' + CallCap(callee)
  BY <1>1, <1>2, <1>3
<1> QED BY <1>1, <1>4, <1>5, MoveToDepth

LEMMA TailInPlace ==
  ASSUME TypeOK, Depth, Reads, NEW callee \in Calls, TailCall(callee),
         \/ call \in {"parse", "parseParameterList"}
         \/ call = "parseUnary" /\ callee = "parseCall"
  PROVE  Depth'
<1>1. CallCap(call) <= CallCap(callee)
  BY CallCaps, CallCapIsInt
<1>2. /\ CallCap(call) \in Int /\ CallCap(callee) \in Int
      /\ pos \in Nat /\ pos' \in Nat /\ pos' >= pos
  BY CallCapIsInt, StackFacts
<1>3. 9 * pos + CallCap(call) <= 9 * pos' + CallCap(callee)
  BY <1>1, <1>2
<1> QED BY <1>3, TailCallDepth

\* The activation on top goes on with a statement or with synchronize.
LEMMA LoopResumes ==
  ASSUME TypeOK, Depth, Reads, stack # <<>>, Top.at \in Shallow,
         NEW callee \in {"synchronize", "parseStatement"}, TailCall(callee)
  PROVE  Depth'
<1>1. callee \in Calls /\ CallCap(callee) = 1 /\ FrameCap(Top.at) = 1
  BY CallCaps, FrameCaps
<1>2. FrameCap(Top.at) <= CallCap(callee)
  BY <1>1
<1> QED BY <1>1, <1>2, ResumeDepth

LEMMA BackToParse ==
  ASSUME TypeOK, Depth, Reads, stack # <<>>, Top.at \in Shallow,
         stack' = Popped, call' = "parse"
  PROVE  Depth'
<1>1. call' \in Calls /\ CallCap(call') = 0 /\ FrameCap(Top.at) = 1
  BY CallCaps, FrameCaps
<1>2. FrameCap(Top.at) <= CallCap(call') + 1
  BY <1>1
<1> QED BY <1>1, <1>2, PoppedDepth

-----------------------------------------------------------------------------
(* One step per action *)

\* matchToken and getNextToken do not move the cursor back.
LEMMA NeverBack ==
  ASSUME TypeOK
  PROVE  /\ pos \in Onward
         /\ \A p \in {pos + 1, pos + 2, pos + 3, pos + 1 + 1, pos + 2 + 1} :
               p \in Onward /\ p \in Beyond
         /\ Match(pos, ")") \in Onward
         /\ Match(pos + 1, "{") \in Onward /\ Match(pos + 1, "{") \in Beyond
         /\ Skip(pos, 2) \in Onward /\ Match(Skip(pos, 2), ")") \in Onward
<1>1. pos \in Nat /\ Len(tokens) \in Nat /\ pos <= Len(tokens)
  BY DEF TypeOK
<1>2. pos \in Onward
  BY <1>1 DEF Onward
<1>3. \A p \in {pos + 1, pos + 2, pos + 3, pos + 1 + 1, pos + 2 + 1} :
        p \in Onward /\ p \in Beyond
  BY <1>1 DEF Onward, Beyond
<1>4. Skip(pos, 2) \in {pos + 2, Len(tokens)}
  BY DEF Skip
<1>5. Len(tokens) \in Onward /\ Len(tokens) + 1 \in Onward /\ pos + 2 + 1 \in Onward
  BY <1>1 DEF Onward
<1>6. \A p, l : Match(p, l) = p \/ Match(p, l) = p + 1
  BY DEF Match
<1> QED BY <1>2, <1>3, <1>4, <1>5, <1>6

\* parse and the parts of parseFunction keep the bounds.
LEMMA FunctionNextDepth ==
  ASSUME TypeOK, Depth, FunctionNext
  PROVE  Depth'
<1>1. CASE ProgramLoop
  <2>1. Reads
    BY <1>1, NeverBack DEF Reads, Consume, ProgramLoop
  <2> QED BY <1>1, <2>1, LoopWaits, TailInPlace, CallCaps, NodeTypes
    DEF ProgramLoop, Shallow
<1>2. CASE ProgramAddFunction
  <2>1. Reads
    BY <1>2, NeverBack DEF Reads, Consume, ProgramAddFunction
  <2> QED BY <1>2, <2>1, BackToParse
    DEF ProgramAddFunction, Returned, Shallow
<1>3. CASE ProgramRetryAsStatement
  <2>1. Reads
    BY <1>3, NeverBack DEF Reads, Consume, ProgramRetryAsStatement
  <2> QED BY <1>3, <2>1, MoveInPlace, FrameCaps, NodeTypes
    DEF ProgramRetryAsStatement, Returned, Shallow
<1>4. CASE ProgramAfterStatement
  <2>1. Reads
    BY <1>4, NeverBack DEF Reads, Consume, ProgramAfterStatement
  <2> QED BY <1>4, <2>1, BackToParse
    DEF ProgramAfterStatement, Returned, Shallow
<1>5. CASE Recover
  <2>1. Reads
    BY <1>5, NeverBack DEF Reads, Consume, Recover
  <2> QED BY <1>5, <2>1, LoopResumes
    DEF Recover, Returned, Shallow
<1>6. CASE Synchronize
  <2>1. Reads
    BY <1>6, NeverBack DEF Reads, Consume, Synchronize
  <2> QED BY <1>6, <2>1, ReturnDepth, TailReading, CallCaps, NeverBack
    DEF Synchronize, Consume, Consumes
<1>7. CASE FunctionHeader
  <2>1. Reads
    BY <1>7, NeverBack DEF Reads, Consume, FunctionHeader
  <2> QED BY <1>7, <2>1, ReturnDepth, TailReading, CallCaps, NeverBack
    DEF FunctionHeader, Consume, Consumes
<1>8. CASE Parameter
  <2>1. Reads
    BY <1>8, NeverBack DEF Reads, Consume, Parameter
  <2> QED BY <1>8, <2>1, TailInPlace, CallCaps
    DEF Parameter
<1>9. CASE ParameterListEnd
  <2>1. Reads
    BY <1>9, NeverBack DEF Reads, Consume, ParameterListEnd
  <2> QED BY <1>9, <2>1, TailInPlace, CallCaps
    DEF ParameterListEnd
<1>10. CASE FunctionBody
  <2>1. Reads
    BY <1>10, NeverBack DEF Reads, Consume, FunctionBody
  <2> QED BY <1>10, <2>1, WaitReading, ReturnDepth, CallCaps, FrameCaps,
          NodeTypes, NeverBack
    DEF FunctionBody, Consume, Consumes, Shallow
<1> QED BY <1>1, <1>2, <1>3, <1>4, <1>5, <1>6, <1>7, <1>8, <1>9, <1>10
  DEF FunctionNext

\* So do the statements ...
LEMMA StatementNextDepth ==
  ASSUME TypeOK, Depth, StatementNext
  PROVE  Depth'
<1>1. CASE BlockStart
  <2>1. Reads
    BY <1>1, NeverBack DEF Reads, Consume, BlockStart
  <2> QED BY <1>1, <2>1, LoopWaits, NodeTypes
    DEF BlockStart, Shallow
<1>2. CASE BlockStatement
  <2>1. Reads
    BY <1>2, NeverBack DEF Reads, Consume, BlockStatement
  <2> QED BY <1>2, <2>1, LoopResumes
    DEF BlockStatement, Returned, Shallow
<1>3. CASE BlockAdd
  <2>1. Reads
    BY <1>3, NeverBack DEF Reads, Consume, BlockAdd
  <2> QED BY <1>3, <2>1, MoveInPlace, FrameCaps, NodeTypes, MakeNodeType
    DEF BlockAdd, Returned, Shallow
<1>4. CASE BlockEnd
  <2>1. Reads
    BY <1>4, NeverBack DEF Reads, Consume, Fail, BlockEnd
  <2> QED BY <1>4, <2>1, FinishDepth
    DEF BlockEnd, Returned
<1>5. CASE StatementAtEnd
  <2>1. Reads
    BY <1>5, NeverBack DEF Reads, Consume, StatementAtEnd
  <2> QED BY <1>5, <2>1, ReturnDepth
    DEF StatementAtEnd
<1>6. CASE NestedBlock
  <2>1. Reads
    BY <1>6, NeverBack DEF Reads, Consume, NestedBlock
  <2> QED BY <1>6, <2>1, TailReading, CallCaps, NeverBack
    DEF NestedBlock, Consume, Consumes
<1>7. CASE BodyDone
  <2>1. Reads
    BY <1>7, NeverBack DEF Reads, Consume, BodyDone
  <2> QED BY <1>7, <2>1, FinishDepth
    DEF BodyDone, Returned
<1>8. CASE IfStart
  <2>1. Reads
    BY <1>8, NeverBack DEF Reads, Consume, Fail, IfStart, HeaderStart
  <2> QED BY <1>8, <2>1, WaitReading, ReturnDepth, CallCaps, FrameCaps,
          NodeTypes, NeverBack
    DEF IfStart, HeaderStart, Consume, Fail, Consumes, Shallow
<1>9. CASE IfCondition
  <2>1. Reads
    BY <1>9, NeverBack DEF Reads, Consume, Fail, IfCondition, HeaderEnd,
       Missing, Body
  <2> QED BY <1>9, <2>1, MoveReading, FinishDepth, CallCaps, FrameCaps,
          NodeTypes, MakeNodeType, NeverBack
    DEF IfCondition, Returned, HeaderEnd, Missing, Body, Consume, Fail,
        Consumes, Shallow
<1>10. CASE IfThen
  <2>1. Reads
    BY <1>10, NeverBack DEF Reads, Consume, IfThen, Body
  <2> QED BY <1>10, <2>1, MoveReading, FinishDepth, CallCaps, FrameCaps,
          NodeTypes, MakeNodeType, NeverBack
    DEF IfThen, Returned, Body, Consume, Consumes, Shallow
<1>11. CASE WhileStart
  <2>1. Reads
    BY <1>11, NeverBack DEF Reads, Consume, Fail, WhileStart, HeaderStart
  <2> QED BY <1>11, <2>1, WaitReading, ReturnDepth, CallCaps, FrameCaps,
          NodeTypes, NeverBack
    DEF WhileStart, HeaderStart, Consume, Fail, Consumes, Shallow
<1>12. CASE WhileCondition
  <2>1. Reads
    BY <1>12, NeverBack DEF Reads, Consume, Fail, WhileCondition, HeaderEnd,
       Missing, Body
  <2> QED BY <1>12, <2>1, MoveReading, FinishDepth, CallCaps, FrameCaps,
          NodeTypes, MakeNodeType, NeverBack
    DEF WhileCondition, Returned, HeaderEnd, Missing, Body, Consume, Fail,
        Consumes, Shallow
<1>13. CASE ForStart
  <2>1. Reads
    BY <1>13, NeverBack DEF Reads, Consume, Fail, ForStart, Optional
  <2> QED BY <1>13, <2>1, WaitReading, ReturnDepth, CallCaps, FrameCaps,
          NodeTypes, NeverBack
    DEF ForStart, Optional, Consume, Fail, Consumes, Shallow
<1>14. CASE ForInit
  <2>1. Reads
    BY <1>14, NeverBack DEF Reads, Consume, Fail, ForInit, Missing, Optional
  <2> QED BY <1>14, <2>1, MoveReading, FinishDepth, CallCaps, FrameCaps,
          NodeTypes, MakeNodeType, NeverBack
    DEF ForInit, Returned, Missing, Optional, Consume, Fail, Consumes, Shallow
<1>15. CASE ForDeclaration
  <2>1. Reads
    BY <1>15, NeverBack DEF Reads, Consume, ForDeclaration, Optional
  <2> QED BY <1>15, <2>1, MoveInPlace, FrameCaps, NodeTypes, MakeNodeType
    DEF ForDeclaration, Returned, Optional, Shallow
<1>16. CASE ForCondition
  <2>1. Reads
    BY <1>16, NeverBack DEF Reads, Consume, Fail, ForCondition, Missing,
       Optional
  <2> QED BY <1>16, <2>1, MoveReading, FinishDepth, CallCaps, FrameCaps,
          NodeTypes, MakeNodeType, NeverBack
    DEF ForCondition, Returned, Missing, Optional, Consume, Fail, Consumes,
        Shallow
<1>17. CASE ForIncrement
  <2>1. Reads
    BY <1>17, NeverBack DEF Reads, Consume, Fail, ForIncrement, HeaderEnd,
       Missing, Body
  <2> QED BY <1>17, <2>1, MoveReading, FinishDepth, CallCaps, FrameCaps,
          NodeTypes, MakeNodeType, NeverBack
    DEF ForIncrement, Returned, HeaderEnd, Missing, Body, Consume, Fail,
        Consumes, Shallow
<1>18. CASE ReturnStart
  <2>1. Reads
    BY <1>18, NeverBack DEF Reads, Consume, ReturnStart
  <2> QED BY <1>18, <2>1, WaitReading, ReturnDepth, CallCaps, FrameCaps,
          NodeTypes, NeverBack
    DEF ReturnStart, Consume, Consumes, Shallow
<1>19. CASE DeclarationKeyword
  <2>1. Reads
    BY <1>19, NeverBack DEF Reads, Consume, DeclarationKeyword
  <2> QED BY <1>19, <2>1, TailReading, CallCaps, NeverBack
    DEF DeclarationKeyword, Consume, Consumes
<1>20. CASE DeclarationLike
  <2>1. Reads
    BY <1>20, NeverBack DEF Reads, Consume, Fail, DeclarationLike
  <2> QED BY <1>20, <2>1, WaitReading, ReturnDepth, CallCaps, FrameCaps,
          NodeTypes, NeverBack
    DEF DeclarationLike, Consume, Fail, Consumes, Shallow
<1>21. CASE TypedDeclaration
  <2>1. Reads
    BY <1>21, NeverBack DEF Reads, Consume, Fail, TypedDeclaration
  <2> QED BY <1>21, <2>1, WaitReading, ReturnDepth, CallCaps, FrameCaps,
          NodeTypes, NeverBack
    DEF TypedDeclaration, Consume, Fail, Consumes, Shallow
<1>22. CASE ExpressionThenSemicolon
  <2>1. Reads
    BY <1>22, NeverBack DEF Reads, Consume, Fail, ExpressionThenSemicolon,
       Expect, Missing
  <2> QED BY <1>22, <2>1, FinishDepth
    DEF ExpressionThenSemicolon, Returned, Expect, Missing
<1>23. CASE AssignmentStart
  <2>1. Reads
    BY <1>23, NeverBack DEF Reads, Consume, AssignmentStart
  <2> QED BY <1>23, <2>1, WaitReading, CallCaps, FrameCaps, NodeTypes, NeverBack
    DEF AssignmentStart, Consume, Consumes, Shallow
<1>24. CASE AssignmentEnd
  <2>1. Reads
    BY <1>24, NeverBack DEF Reads, Consume, Fail, AssignmentEnd, Expect, Missing
  <2> QED BY <1>24, <2>1, FinishDepth
    DEF AssignmentEnd, Returned, Expect, Missing
<1>25. CASE ExpressionStatementStart
  <2>1. Reads
    BY <1>25, NeverBack DEF Reads, Consume, ExpressionStatementStart
  <2>2. /\ call = "parseStatement"
        /\ WaitAt("expression", NoNode, "parseExpression") /\ NoNode \in Results
        /\ "expression" \in Frames /\ "parseExpression" \in Calls
    BY <1>25, NodeTypes, FrameCaps, CallCaps DEF ExpressionStatementStart
  <2>3. /\ CallCap(call) = 1 /\ FrameCap("expression") = 2
        /\ CallCap("parseExpression") = 2
    BY <2>2, FrameCaps, CallCaps
  <2>4. CallCap(call) + 1 <= FrameCap("expression")
    BY <2>3
  <2>5. CallCap(call) + 1 <= CallCap("parseExpression")
    BY <2>3
  <2> QED BY <2>1, <2>2, <2>4, <2>5, WaitInPlace
<1>26. CASE ExpressionStatementEnd
  <2>1. Reads
    BY <1>26, NeverBack DEF Reads, Consume, Fail, ExpressionStatementEnd,
       Expect, Missing
  <2> QED BY <1>26, <2>1, FinishDepth
    DEF ExpressionStatementEnd, Returned, Expect, Missing
<1> QED BY <1>1, <1>2, <1>3, <1>4, <1>5, <1>6, <1>7, <1>8, <1>9, <1>10, <1>11,
        <1>12, <1>13, <1>14, <1>15, <1>16, <1>17, <1>18, <1>19, <1>20, <1>21,
        <1>22, <1>23, <1>24, <1>25, <1>26
  DEF StatementNext

\* ... and the expressions, where the bounds are tight.
LEMMA ExpressionNextDepth ==
  ASSUME TypeOK, Depth, ExpressionNext
  PROVE  Depth'
<1>1. CASE Descend
  <2>1. Reads
    BY <1>1, NeverBack DEF Reads, Consume, Descend
  <2>2. /\ call \in Levels /\ call \in Frames /\ Operand(call) \in Calls
        /\ WaitAt(call, NoNode, Operand(call)) /\ NoNode \in Results
    BY <1>1, LevelTypes, NodeTypes DEF Descend
  <2>3. FrameCap(call) = CallCap(call) + 1 /\ CallCap(Operand(call)) >= CallCap(call) + 1
    BY <2>2, FrameCaps, LevelCaps
  <2>4. CallCap(call) + 1 <= FrameCap(call)
    BY <2>3, CallCapIsInt
  <2> QED BY <2>1, <2>2, <2>3, <2>4, WaitInPlace
<1>2. CASE AssignmentTarget
  <2>1. Reads
    BY <1>2, NeverBack DEF Reads, Consume, AssignmentTarget
  <2>2. ret \in Results /\ "assignment value" \in Frames /\ "parseExpression" \in Calls
    BY FrameCaps, CallCaps DEF TypeOK, Results, Shallow
  <2>3. stack # <<>>
    BY <1>2 DEF AssignmentTarget, Returned
  <2> QED BY <1>2, <2>1, <2>2, <2>3, MoveReading, FinishDepth, NeverBack
          DEF AssignmentTarget, Consume, Consumes
<1>3. CASE AssignmentValue
  <2>1. Reads
    BY <1>3, NeverBack DEF Reads, Consume, Fail, AssignmentValue
  <2> QED BY <1>3, <2>1, FinishDepth
    DEF AssignmentValue, Returned
<1>4. CASE BinaryOperand
  <2>1. Reads
    BY <1>4, NeverBack DEF Reads, Consume, BinaryOperand
  <2>2. PICK at \in BinaryLevels :
          /\ Returned(at)
          /\ \E left \in Results :
               \/ Consume(pos + 1) /\ MoveTo(at, left, Operand(at))
               \/ Finish(left)
    <3>1. ret \in Results
      BY DEF TypeOK, Results
    <3> QED BY <1>4, <3>1, NodeTypes, MakeNodeType DEF BinaryOperand
  <2>3. /\ stack # <<>> /\ Top.at = at /\ at \in Levels
        /\ at \in Frames /\ Operand(at) \in Calls
    BY <2>2, LevelTypes DEF Returned, Levels
  <2>4. PICK left \in Results : \/ Consume(pos + 1) /\ MoveTo(at, left, Operand(at))
                                \/ Finish(left)
    BY <2>2
  <2>5. CASE Consume(pos + 1) /\ MoveTo(at, left, Operand(at))
    <3>1. Consumes
      BY <2>5, NeverBack DEF Consume, Consumes
    <3> QED BY <2>3, <2>5, <3>1, MoveReading
  <2> QED BY <2>1, <2>3, <2>4, <2>5, FinishDepth
<1>5. CASE UnaryStart
  <2>1. CASE Consume(pos + 1) /\ WaitAt("unary", NoNode, "parseUnary")
    <3>1. Consumes /\ Reads
      BY <2>1, NeverBack DEF Consume, Consumes, Reads
    <3>2. /\ call = "parseUnary" /\ NoNode \in Results
          /\ "unary" \in Frames /\ "parseUnary" \in Calls
      BY <1>5, NodeTypes, FrameCaps, CallCaps DEF UnaryStart, Shallow
    <3>3. CallCap("parseUnary") = 9 /\ FrameCap("unary") = 1
      BY FrameCaps, CallCaps DEF Shallow
    <3>4. pos \in Nat /\ pos' \in Nat /\ pos' >= pos + 1
      BY <3>1, ConsumesReads
    <3>5. 9 * pos + CallCap(call) + 1 <= 9 * pos' + FrameCap("unary")
      BY <3>2, <3>3, <3>4
    <3>6. 9 * pos + CallCap(call) + 1 <= 9 * pos' + CallCap("parseUnary")
      BY <3>2, <3>3, <3>4
    <3> QED BY <2>1, <3>1, <3>2, <3>5, <3>6, WaitAtDepth
  <2>2. CASE Consume(pos) /\ TailCall("parseCall")
    <3>1. Reads
      BY <2>2, NeverBack DEF Consume, Reads
    <3>2. call = "parseUnary" /\ "parseCall" \in Calls
      BY <1>5, CallCaps DEF UnaryStart
    <3> QED BY <2>2, <3>1, <3>2, TailInPlace
  <2> QED BY <1>5, <2>1, <2>2 DEF UnaryStart
<1>6. CASE UnaryEnd
  <2>1. Reads
    BY <1>6, NeverBack DEF Reads, Consume, UnaryEnd
  <2> QED BY <1>6, <2>1, FinishDepth
    DEF UnaryEnd, Returned
<1>7. CASE CallCallee
  <2>1. Reads
    BY <1>7, NeverBack DEF Reads, Consume, CallCallee
  <2> QED BY <1>7, <2>1, MoveReading, FinishDepth, ReturnDepth, CallCaps,
          FrameCaps, NodeTypes, MakeNodeType, NeverBack
    DEF CallCallee, Returned, Consume, Consumes, Shallow
<1>8. CASE CallArgument
  <2>1. Reads
    BY <1>8, NeverBack DEF Reads, Consume, Fail, CallArgument
  <2> QED BY <1>8, <2>1, MoveReading, CallMadeDepth, CallCaps, FrameCaps,
          NodeTypes, MakeNodeType, NeverBack
    DEF CallArgument, Returned, Consume, Fail, Consumes, Shallow
<1>9. CASE Primary
  <2>1. CASE Consume(pos + 1) /\ WaitAt("paren", NoNode, "parseExpression")
    <3>1. Consumes /\ Reads
      BY <2>1, NeverBack DEF Consume, Consumes, Reads
    <3>2. /\ call = "parsePrimary" /\ NoNode \in Results
          /\ "paren" \in Frames /\ "parseExpression" \in Calls
      BY <1>9, NodeTypes, FrameCaps, CallCaps DEF Primary
    <3>3. /\ CallCap("parsePrimary") = 10 /\ FrameCap("paren") = 2
          /\ CallCap("parseExpression") = 2
      BY FrameCaps, CallCaps
    <3>4. pos \in Nat /\ pos' \in Nat /\ pos' >= pos + 1
      BY <3>1, ConsumesReads
    <3>5. 9 * pos + CallCap(call) + 1 <= 9 * pos' + FrameCap("paren")
      BY <3>2, <3>3, <3>4
    <3>6. 9 * pos + CallCap(call) + 1 <= 9 * pos' + CallCap("parseExpression")
      BY <3>2, <3>3, <3>4
    <3> QED BY <2>1, <3>1, <3>2, <3>5, <3>6, WaitAtDepth
  <2>2. CASE Reads /\ \E node \in Results : Return(node)
    BY <2>2, ReturnDepth
  <2> QED BY <1>9, <2>1, <2>2, NeverBack, NodeTypes
          DEF Primary, Consume, Fail, Reads, Results, Node
<1>10. CASE ParenEnd
  <2>1. Reads
    BY <1>10, NeverBack DEF Reads, Consume, Fail, ParenEnd, Expect, Missing
  <2> QED BY <1>10, <2>1, FinishDepth
    DEF ParenEnd, Returned, Expect, Missing
<1> QED BY <1>1, <1>2, <1>3, <1>4, <1>5, <1>6, <1>7, <1>8, <1>9, <1>10
  DEF ExpressionNext

(***************************************************************************)
(* Whatever the tokens are, the C++ stack of the parser is at most nine    *)
(* activations deep for each token consumed, and ten more: no input makes  *)
(* the parser recurse without reading.                                     *)
(***************************************************************************)
THEOREM RecursionIsPaidFor == Spec => []RecursionNeedsTokens
<1>1. Init => Depth
  BY CallCaps DEF Init, Depth
<1>2. TypeOK /\ Depth /\ [Next]_vars => Depth'
  <2> SUFFICES ASSUME TypeOK, Depth, [Next]_vars PROVE Depth'
    OBVIOUS
  <2>1. CASE UNCHANGED vars
    BY <2>1 DEF Depth, vars
  <2> QED BY <2>1, FunctionNextDepth, StatementNextDepth, ExpressionNextDepth
             DEF Next, Terminated
<1>3. TypeOK /\ Depth => RecursionNeedsTokens
  <2> SUFFICES ASSUME TypeOK, Depth PROVE RecursionNeedsTokens
    OBVIOUS
  <2>1. pos \in Nat /\ Len(stack) \in Nat /\ CallCap(call) \in 0 .. 10
    BY CallCaps DEF TypeOK
  <2> QED BY <2>1 DEF Depth, RecursionNeedsTokens
<1> QED BY <1>1, <1>2, <1>3, Typing, PTL DEF Spec
=============================================================================
