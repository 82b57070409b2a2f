-------------------------- MODULE SymbolIndexProofs --------------------------
(***************************************************************************)
(* What is printed of every accepted program: the index has the last       *)
(* declaration of each name and agrees with the scopes that the analyzer   *)
(* has left, and the summary lists these in the order of the source.       *)
(***************************************************************************)
EXTENDS SymbolIndex, SemanticProofs

-----------------------------------------------------------------------------
(* The analysis below the index *)

LEMMA IndexStep ==
  ASSUME [IndexNext]_<<vars, indexVars>> PROVE [Next]_vars
BY DEF IndexNext, Analysis, StartSummary, PrintScope, StartIndex, IndexFunction,
       IndexDeclaration, Walk, PrintSymbols, Printed, indexVars

\* What class Compiler does with a program leaves the analyzer as it is: every
\* theorem about the analysis holds of the whole.
THEOREM IndexedAnalysis == IndexSpec => Spec
<1>1. IndexInit => Init
  BY DEF IndexInit
<1> QED BY <1>1, IndexStep, PTL DEF IndexSpec, Spec

-----------------------------------------------------------------------------
(* What an accepted program leaves to indexAST *)

\* Each node with a scope that was visited has been given it.
Own(sc, a) ==
  \A p \in DOMAIN ast : HasScope(p) /\ ~Awaited(a, p) =>
    \E s \in 1 .. Len(sc) : sc[s].at = p

\* An unknown type of a function or variable that was visited is reported.
Unknown(a) == \E d \in Recorded : ~Awaited(a, d) /\ UnknownType(d) # {}

LeftInv ==
  status # "start" => Own(scopes, agenda) /\ (Unknown(agenda) => reports # {})

\* The scopes when the one at c has been given the symbol of d.
LEMMA DeclaredAt ==
  ASSUME WellFormed(ast), scopes \in Seq(ScopeSet), current \in 1 .. Len(scopes),
         NEW d \in Declarers
  PROVE  LET sd == [scopes EXCEPT ![current] = With(@, SymbolOf(d))] IN
         /\ sd \in Seq(ScopeSet) /\ Len(sd) = Len(scopes)
         /\ \A s \in 1 .. Len(scopes) : sd[s].at = scopes[s].at
<1> DEFINE y   == SymbolOf(d)
           new == With(scopes[current], y)
           sd  == [scopes EXCEPT ![current] = new]
<1>1. scopes[current] \in ScopeSet
  BY ElementOfSeq
<1>2. new \in ScopeSet /\ new.at = scopes[current].at
  <2>1. y \in [name : Name, kind : {"function", "variable"}, type : Builtins \cup {NoType},
               isInitialized : BOOLEAN]
    BY SymbolIs
  <2> HIDE DEF y
  <2>2. CASE \E other \in scopes[current].symbols : other.name = y.name
    BY <1>1, <2>2 DEF With
  <2>3. CASE ~ \E other \in scopes[current].symbols : other.name = y.name
    <3>1. new = [scopes[current] EXCEPT !.symbols = @ \cup {y}]
      BY <2>3 DEF With
    <3> QED BY <1>1, <2>1, <3>1 DEF ScopeSet
  <2> QED BY <2>2, <2>3
<1> HIDE DEF new, y
<1>3. /\ sd \in Seq(ScopeSet) /\ Len(sd) = Len(scopes)
      /\ \A s \in 1 .. Len(scopes) : sd[s] = IF s = current THEN new ELSE scopes[s]
  BY <1>2, ExceptSeq
<1> HIDE DEF sd
<1>4. \A s \in 1 .. Len(scopes) : sd[s].at = scopes[s].at
  BY <1>2, <1>3
<1> QED BY <1>3, <1>4 DEF sd, new, y

\* A new scope comes behind the others.
LEMMA PushedAt ==
  ASSUME NEW S, NEW sc \in Seq(S), NEW new
  PROVE  /\ Len(Append(sc, new)) = Len(sc) + 1 /\ Len(sc) \in Nat
         /\ \A s \in 1 .. Len(sc) : Append(sc, new)[s] = sc[s]
         /\ Append(sc, new)[Len(sc) + 1] = new
<1>1. sc \in Seq(S \cup {new}) /\ new \in S \cup {new}
  BY SeqMonotonic
<1> QED BY <1>1, AppendProperties, LenProperties

\* What a step does with the nodes of the scopes.
LEMMA ScopesGrow ==
  ASSUME Inv, [Next]_vars, status = "running"
  PROVE  /\ \A s \in 1 .. Len(scopes) : s \in 1 .. Len(scopes') /\ scopes'[s].at = scopes[s].at
         /\ ScopedVisit \/ VisitFunction =>
              Len(scopes') \in 1 .. Len(scopes') /\ scopes'[Len(scopes')].at = agenda[1].at
         /\ Len(scopes') = Len(scopes) + (IF ScopedVisit \/ VisitFunction THEN 1 ELSE 0)
<1>1. scopes \in Seq(ScopeSet) /\ Len(scopes) \in Nat
  BY LenProperties DEF Inv, Structure, ScopesInv
<1>2. agenda # <<>> => current \in 1 .. Len(scopes)
  BY DEF Inv, Structure, CurrentIs
<1>3. ASSUME agenda # <<>>
      PROVE  agenda[1].at \in Path /\ WellFormed(ast) /\ agenda[1].at \in DOMAIN ast
  BY <1>3, NowIs
<1>4. CASE ScopedVisit
  <2> DEFINE new == Scope(current, agenda[1].at)
  <2>1. scopes' = Append(scopes, new) /\ agenda # <<>>
    BY <1>4, ScopedVisits
  <2>2. new.at = agenda[1].at
    BY <1>2, <1>3, <2>1, EmptyScope
  <2> HIDE DEF new
  <2>3. /\ Len(scopes') = Len(scopes) + 1
        /\ \A s \in 1 .. Len(scopes) : scopes'[s] = scopes[s]
        /\ scopes'[Len(scopes) + 1] = new
    BY <1>1, <2>1, PushedAt
  <2>4. /\ \A s \in 1 .. Len(scopes) :
             s \in 1 .. Len(scopes') /\ scopes'[s].at = scopes[s].at
        /\ Len(scopes') \in 1 .. Len(scopes')
    BY <1>1, <2>3
  <2> QED BY <1>4, <2>2, <2>3, <2>4
<1>5. CASE VisitFunction
  <2> DEFINE f   == agenda[1].at
             sd  == [scopes EXCEPT ![current] = With(@, SymbolOf(f))]
             new == ParameterScope(f)
  <2>1. scopes' = Append(sd, new) /\ agenda # <<>>
    BY <1>5, Functions
  <2>2. new.at = f
    BY <1>2, <1>3, <2>1, EmptyScope DEF ParameterScope, Scope
  <2>3. /\ Len(sd) = Len(scopes) /\ \A s \in 1 .. Len(scopes) : sd[s].at = scopes[s].at
        /\ sd \in Seq(ScopeSet)
    <3>1. current \in 1 .. Len(scopes)
      BY <1>2, <2>1
    <3>2. WellFormed(ast) /\ f \in Declarers
      BY <1>3, <1>5, <2>1, Functions DEF Declarers, DeclarerKinds
    <3> HIDE DEF f
    <3> QED BY <1>1, <3>1, <3>2, DeclaredAt
  <2> HIDE DEF new, sd
  <2>4. /\ Len(scopes') = Len(scopes) + 1
        /\ \A s \in 1 .. Len(scopes) : scopes'[s] = sd[s]
        /\ scopes'[Len(scopes) + 1] = new
    BY <2>1, <2>3, PushedAt
  <2>5. \A s \in 1 .. Len(scopes) : s \in 1 .. Len(scopes')
    BY <1>1, <2>4
  <2>6. Len(scopes') = Len(scopes) + 1 /\ Len(scopes') \in 1 .. Len(scopes')
    BY <1>1, <2>4
  <2> QED BY <1>5, <2>2, <2>3, <2>4, <2>5, <2>6
<1>6. CASE VisitDeclaration /\ ~ScopedVisit /\ ~VisitFunction
  <2>1. /\ scopes' = [scopes EXCEPT ![current] = With(@, SymbolOf(agenda[1].at))]
        /\ agenda # <<>> /\ ast[agenda[1].at].kind = "declaration"
    BY <1>6, Declarations
  <2>2. Len(scopes') = Len(scopes) /\ \A s \in 1 .. Len(scopes) : scopes'[s].at = scopes[s].at
    <3> DEFINE d == agenda[1].at
    <3>1. current \in 1 .. Len(scopes)
      BY <1>2, <2>1
    <3>2. WellFormed(ast) /\ d \in Declarers
      BY <1>3, <2>1 DEF Declarers, DeclarerKinds
    <3>3. scopes' = [scopes EXCEPT ![current] = With(@, SymbolOf(d))]
      BY <2>1
    <3> HIDE DEF d
    <3>4. LET sd == [scopes EXCEPT ![current] = With(@, SymbolOf(d))] IN
          Len(sd) = Len(scopes) /\ \A s \in 1 .. Len(scopes) : sd[s].at = scopes[s].at
      BY <1>1, <3>1, <3>2, DeclaredAt
    <3> QED BY <3>3, <3>4
  <2> QED BY <1>6, <2>2
<1>7. CASE /\ ~ScopedVisit /\ ~VisitFunction
           /\ PlainVisit \/ Check \/ PopScope \/ LeaveFunction \/ VisitAssignment
  <2>1. scopes' = scopes
    BY <1>7, PlainVisits, Checks, Leavings, Assignments
  <2> QED BY <1>7, <2>1
<1>8. CASE /\ ~ScopedVisit /\ ~VisitFunction
           /\ Analyze \/ Finish \/ Terminated \/ UNCHANGED vars
  <2>1. scopes' = scopes
    BY <1>8 DEF Analyze, Finish, Terminated, vars
  <2> QED BY <1>8, <2>1
<1> QED BY <1>4, <1>5, <1>6, <1>7, <1>8 DEF Next, PlainVisit, ScopedVisit, Check

\* Below an initializer and an assigned value there are only expressions.
LEMMA BelowStored ==
  ASSUME WellFormed(ast), NEW h \in DOMAIN ast, NEW p \in DOMAIN ast, Above(h, p),
         ast[h].kind \in {"assignment", "declaration"}
  PROVE  ast[p].kind \in ExpressionKinds \cup {"declaration"}
<1>1. h \in Path
  BY NodesArePaths
<1>2. CASE p = h
  BY <1>2 DEF ExpressionKinds
<1>3. CASE p # h
  <2> DEFINE i == p[Len(h) + 1]
             c == Append(h, i)
  <2>1. i \in Nat /\ c \in DOMAIN ast /\ Above(c, p)
    BY <1>3, BelowNode
  <2>2. ast[c].kind \in KindsAt(ast[h], i)
    BY <1>1, <2>1, ChildNode
  <2>3. ast[c].kind \in ExpressionKinds
    BY <2>2, ChildKinds DEF ExpressionKinds
  <2> HIDE DEF c
  <2> QED BY <2>1, <2>3, BelowExpression
<1> QED BY <1>2, <1>3

\* The scope of a node that is visited is made in the step.
LEMMA OwnStep ==
  ASSUME Inv, [Next]_vars, status = "running", ast' = ast, Own(scopes, agenda)
  PROVE  Own(scopes', agenda')
<1> SUFFICES ASSUME NEW p \in DOMAIN ast, HasScope(p), ~Awaited(agenda', p)
    PROVE  \E s \in 1 .. Len(scopes') : scopes'[s].at = p
  BY DEF Own
<1>1. WellFormed(ast) /\ \A s \in 1 .. Len(scopes) :
        s \in 1 .. Len(scopes') /\ scopes'[s].at = scopes[s].at
  BY ScopesGrow, Trees
<1>2. CASE ~Awaited(agenda, p)
  BY <1>1, <1>2 DEF Own
<1>3. CASE New(p) /\ p = agenda[1].at /\ (ScopedVisit \/ VisitFunction)
  BY <1>3, ScopesGrow
<1>4. CASE New(p) /\ PlainVisit
  <2>1. p = <<>> /\ agenda[1].at = <<>> /\ agenda # <<>>
    <3>1. p = agenda[1].at /\ ast[p].kind = "program" /\ agenda # <<>>
      BY <1>4, PlainNew, PlainVisits DEF HasScope, ScopeKinds
    <3> QED BY <1>1, <3>1, TopLevel
  <2>2. current \in 1 .. Len(scopes) /\ scopes[current].at = ScopeAt(agenda[1])
    BY <2>1, NowIs DEF Structure, CurrentIs
  <2>3. ScopeAt(agenda[1]) = <<>>
    BY <2>1 DEF ScopeAt
  <2> QED BY <1>1, <2>1, <2>2, <2>3
<1>5. CASE New(p) /\ VisitFunction
  <2>1. p = agenda[1].at \/ ast[p].kind = "parameter"
    BY <1>5, FunctionNew
  <2> QED BY <1>3, <1>5, <2>1 DEF HasScope, ScopeKinds
<1>6. CASE New(p) /\ ScopedVisit
  BY <1>3, <1>6, PlainNew
<1>7. CASE New(p) /\ (VisitAssignment \/ VisitDeclaration)
  <2> DEFINE h == agenda[1].at
  <2>1. Above(h, p) /\ ast[h].kind \in {"assignment", "declaration"} /\ h \in DOMAIN ast
    BY <1>7, AssignmentNew, DeclarationNew, Assignments, Declarations, NowIs
  <2>2. ast[p].kind \in ExpressionKinds \cup {"declaration"}
    BY <1>1, <2>1, BelowStored
  <2> QED BY <2>2 DEF HasScope, ScopeKinds, ExpressionKinds
<1>8. CASE New(p) /\ (Check \/ PopScope \/ LeaveFunction)
  BY <1>8, CheckNew
<1>9. CASE New(p) /\ (Analyze \/ Finish \/ Terminated \/ UNCHANGED vars)
  <2>1. agenda' = agenda
    BY <1>9 DEF Analyze, Finish, Terminated, vars
  <2> QED BY <1>9, <2>1 DEF New
<1>10. ~Awaited(agenda, p) \/ New(p)
  BY DEF New
<1> QED BY <1>2, <1>4, <1>5, <1>6, <1>7, <1>8, <1>9, <1>10
        DEF Next, PlainVisit, ScopedVisit, Check

\* A function or variable with an unknown type is reported when it is visited.
LEMMA UnknownStep ==
  ASSUME Inv, [Next]_vars, status = "running", ast' = ast,
         Unknown(agenda) => reports # {}, Unknown(agenda')
  PROVE  reports' # {}
<1>1. reports \subseteq reports' /\ WellFormed(ast)
  BY ReportsStay, Trees
<1>2. PICK d \in Recorded : ~Awaited(agenda', d) /\ UnknownType(d) # {}
  BY DEF Unknown
<1>3. /\ d \in DOMAIN ast /\ d \in Declarers /\ ast[d].kind \in {"function", "declaration"}
  BY <1>1, DeclarersAre DEF Recorded
<1>4. CASE ~Awaited(agenda, d)
  BY <1>1, <1>2, <1>4 DEF Unknown
<1>5. CASE New(d) /\ (PlainVisit \/ ScopedVisit)
  BY <1>3, <1>5, PlainNew
<1>6. CASE New(d) /\ (Check \/ PopScope \/ LeaveFunction)
  BY <1>3, <1>6, CheckNew
<1>7. CASE New(d) /\ VisitAssignment
  <2>1. Above(agenda[1].at, d) /\ ast[agenda[1].at].kind = "assignment"
    BY <1>3, <1>7, AssignmentNew
  <2>2. agenda[1].at \in DOMAIN ast
    BY <1>7, Assignments, NowIs
  <2> QED BY <1>1, <1>3, <2>1, <2>2, NothingDeclared DEF ExpressionKinds
<1>8. CASE New(d) /\ VisitDeclaration
  <2> DEFINE p == agenda[1].at
  <2>1. /\ ast[p].kind = "declaration" /\ p \in DOMAIN ast /\ Above(p, d)
        /\ reports' = reports \cup UnknownType(p) \cup Redeclared(p)
    BY <1>3, <1>8, Declarations, DeclarationNew, NowIs
  <2>2. d = p
    BY <1>1, <1>3, <2>1, NothingDeclared
  <2> QED BY <1>2, <2>1, <2>2
<1>9. CASE New(d) /\ VisitFunction
  <2> DEFINE f == agenda[1].at
  <2>1. d = f
    BY <1>3, <1>9, FunctionNew
  <2>2. reports' = reports \cup UnknownType(f) \cup Redeclared(f) \cup ParameterErrors(f)
    BY <1>9, Functions
  <2> QED BY <1>2, <2>1, <2>2
<1>10. CASE New(d) /\ (Analyze \/ Finish \/ Terminated \/ UNCHANGED vars)
  <2>1. agenda' = agenda
    BY <1>10 DEF Analyze, Finish, Terminated, vars
  <2> QED BY <1>10, <2>1 DEF New
<1>11. ~Awaited(agenda, d) \/ New(d)
  BY <1>2 DEF New
<1> QED BY <1>4, <1>5, <1>6, <1>7, <1>8, <1>9, <1>10, <1>11
        DEF Next, PlainVisit, ScopedVisit, Check

LEMMA SameLeft ==
  ASSUME ast' = ast
  PROVE  /\ Own(scopes, agenda)' <=> Own(scopes', agenda')
         /\ Unknown(agenda)' <=> Unknown(agenda')
BY SameTree DEF Own, Unknown, Awaited, Awaits, Above, HasScope, Recorded, Declarers,
                UnknownType, Builtin

LEMMA LeftNext ==
  ASSUME Inv, LeftInv, [Next]_vars PROVE LeftInv'
<1>1. ast' = ast
  BY DEF Next, vars, Analyze, VisitProgram, VisitFunction, LeaveFunction, VisitDeclaration,
         CheckInitializer, VisitBlock, PopScope, VisitAssignment, VisitReturn, CheckReturn,
         VisitIfOrWhile, VisitFor, CheckCondition, VisitOperand, VisitBinary, CheckOperands,
         VisitCall, VisitLeaf, Finish, Terminated
<1>2. /\ Own(scopes, agenda)' <=> Own(scopes', agenda')
      /\ Unknown(agenda)' <=> Unknown(agenda')
  BY <1>1, SameLeft
<1>3. CASE status = "running"
  <2>1. Own(scopes, agenda) /\ (Unknown(agenda) => reports # {})
    BY <1>3 DEF LeftInv
  <2>2. Own(scopes', agenda')
    BY <1>1, <1>3, <2>1, OwnStep
  <2>3. Unknown(agenda') => reports' # {}
    BY <1>1, <1>3, <2>1, UnknownStep
  <2> QED BY <1>2, <2>2, <2>3 DEF LeftInv
<1>4. CASE Analyze
  <2> DEFINE t == Task("visit", <<>>)
  <2>1. agenda' = <<t>> /\ WellFormed(ast)
    BY <1>4, Trees DEF Analyze
  <2>2. t.do = "visit" /\ t.at = <<>>
    BY <2>1, NodesArePaths, TaskIs DEF Doings
  <2> HIDE DEF t
  <2>3. \A x \in Path : Awaited(agenda', x)
    BY <2>1, <2>2 DEF Awaited, Awaits, Above, Path
  <2>4. DOMAIN ast \subseteq Path /\ Recorded \subseteq DOMAIN ast
    BY <2>1, NodesArePaths DEF Recorded, Declarers
  <2>5. Own(scopes', agenda') /\ ~Unknown(agenda')
    BY <2>3, <2>4 DEF Own, Unknown
  <2> QED BY <1>2, <2>5 DEF LeftInv
<1>5. CASE status # "running" /\ ~Analyze
  <2>1. UNCHANGED vars
    BY <1>5 DEF Next, vars, VisitProgram, VisitFunction, LeaveFunction, VisitDeclaration,
         CheckInitializer, VisitBlock, PopScope, VisitAssignment, VisitReturn, CheckReturn,
         VisitIfOrWhile, VisitFor, CheckCondition, VisitOperand, VisitBinary, CheckOperands,
         VisitCall, VisitLeaf, Finish, Terminated, At
  <2>2. agenda' = agenda /\ scopes' = scopes /\ reports' = reports /\ status' = status
    BY <2>1 DEF vars
  <2> QED BY <1>2, <2>2 DEF LeftInv
<1> QED BY <1>3, <1>4, <1>5

\* An accepted program leaves no name declared twice in a scope, a symbol for each
\* declaration, and with functions and variables the types that are written.
LEMMA AcceptedLeaves ==
  ASSUME Inv, DeclaredInv, LeftInv, status = "done", reports = {}, NEW d \in Recorded
  PROVE  /\ Declared(d).type = ast[d].type
         /\ \E s \in DOMAIN scopes :
              Symbol(ast[d].name, Declared(d).kind, ast[d].type) \in scopes[s].symbols
<1>1. /\ WellFormed(ast) /\ d \in Declarers /\ d \in DOMAIN ast /\ d # <<>>
      /\ ast[d].kind \in {"function", "declaration"}
  BY Trees, DeclarersAre DEF Recorded
<1>2. \A x : ~Awaited(agenda, x)
  BY NoneAwaited DEF DeclaredInv
<1>3. Own(scopes, agenda) /\ ~Unknown(agenda) /\ ~Doubled(agenda)
  BY DEF LeftInv, DeclaredInv
<1>4. Declared(d).type = ast[d].type
  <2>1. Builtin(ast[d].type) # NoType \/ ast[d].type = NoType
    BY <1>2, <1>3 DEF Unknown, UnknownType
  <2>2. ast[d].kind = "function" => ast[d].type # NoType
    BY <1>1 DEF WellFormed
  <2>3. Builtin(ast[d].type) # NoType => Builtin(ast[d].type) = ast[d].type
    BY DEF Builtin
  <2> QED BY <1>1, <2>1, <2>2 DEF Declared, DeclaredType, ReturnType, Known
<1> DEFINE e == EnclosingScope(d)
<1>5. e \in DOMAIN ast /\ HasScope(e)
  BY <1>1, EnclosingIs
<1>6. PICK s \in 1 .. Len(scopes) : scopes[s].at = e
  BY <1>2, <1>3, <1>5 DEF Own
<1>7. scopes \in Seq(ScopeSet) /\ HasFirst(scopes[s], agenda)
  BY DEF Inv, Structure, ScopesInv
<1>8. PICK y \in scopes[s].symbols : y.name = ast[d].name
  BY <1>1, <1>2, <1>6, <1>7 DEF HasFirst
<1>9. PICK c \in Declarers : EnclosingScope(c) = e /\ y = SymbolOf(c)
  BY <1>6, <1>7, <1>8 DEF HasFirst
<1>10. c = d
  <2>1. ast[c].name = ast[d].name
    BY <1>1, <1>8, <1>9, SymbolIs
  <2> QED BY <1>1, <1>2, <1>3, <1>9, <2>1 DEF Doubled, SameName
<1>11. y = Symbol(ast[d].name, Declared(d).kind, ast[d].type)
  BY <1>4, <1>9, <1>10 DEF SymbolOf
<1>12. s \in DOMAIN scopes
  BY <1>7, LenProperties
<1> QED BY <1>4, <1>8, <1>11, <1>12

-----------------------------------------------------------------------------
(* The order of the scopes *)

\* Scopes are made in the order of the source, before what is still to be visited.
SourceOrder(sc, a) ==
  /\ \A s, q \in 1 .. Len(sc) : s < q => Precedes(sc[s].at, sc[q].at)
  /\ \A s \in 1 .. Len(sc), i \in 1 .. Len(a) :
       sc[s].at # <<>> /\ a[i].do = "visit" => Precedes(sc[s].at, a[i].at)

\* What is below a node comes after it.
LEMMA BelowIsAfter ==
  ASSUME NEW p \in Path, NEW x \in Path, Above(p, x), x # p
  PROVE  Precedes(p, x)
BY PrecedesIs

\* What was visited before the head comes before what the head is replaced by.
LEMMA OrderAfter ==
  ASSUME NEW a, NEW more, NEW b, StepTo(a, more, b),
         NEW sc \in Seq(ScopeSet), SourceOrder(sc, a),
         NEW s \in 1 .. Len(sc), sc[s].at # <<>>, NEW i \in 1 .. Len(b), b[i].do = "visit"
  PROVE  Precedes(sc[s].at, b[i].at)
<1>1. /\ a \in Seq(Tasks) /\ a # <<>> /\ Unfolds(more, a[1]) /\ more \in Seq(Tasks)
      /\ b = more \o Tail(a) /\ (more # <<>> => a[1].do = "visit")
  BY DEF StepTo, AgendaInv, Ordered, Replaces, Unfolds
<1>2. \/ i \in 1 .. Len(more) /\ b[i] = more[i]
      \/ i - Len(more) + 1 \in 2 .. Len(a) /\ b[i] = a[i - Len(more) + 1]
  BY <1>1, JoinIs
<1>3. sc[s].at \in Path /\ a[1] \in Tasks /\ 1 \in 1 .. Len(a) /\ a[1].at \in Path
      /\ Len(a) \in Nat
  <2>1. a[1] \in Tasks /\ Len(a) \in Nat \ {0}
    BY <1>1, RestIs
  <2> QED BY <2>1, TaskTyped, AtSequences
<1>4. CASE i \in 1 .. Len(more) /\ b[i] = more[i]
  <2>1. more[i] \in Tasks /\ more # <<>>
    BY <1>1, <1>4, ElementOfSeq
  <2>2. a[1].do = "visit" /\ Above(a[1].at, more[i].at) /\ more[i].at \in Path
    BY <1>1, <1>4, <2>1, TaskTyped DEF Unfolds
  <2>3. Precedes(sc[s].at, a[1].at)
    BY <1>3, <2>2 DEF SourceOrder
  <2> QED BY <1>3, <1>4, <2>2, <2>3, PrecedesBelow
<1>5. CASE i - Len(more) + 1 \in 2 .. Len(a) /\ b[i] = a[i - Len(more) + 1]
  <2> DEFINE j == i - Len(more) + 1
  <2>1. j \in 1 .. Len(a) /\ b[i] = a[j]
    BY <1>3, <1>5
  <2> HIDE DEF j
  <2> QED BY <2>1 DEF SourceOrder
<1> QED BY <1>2, <1>4, <1>5

\* The head comes before everything that is still to be visited when it has been.
LEMMA HeadBefore ==
  ASSUME NEW a, NEW more, NEW b, StepTo(a, more, b), a[1].do = "visit",
         ~Awaited(b, a[1].at), NEW i \in 1 .. Len(b), b[i].do = "visit"
  PROVE  Precedes(a[1].at, b[i].at)
<1>1. /\ a \in Seq(Tasks) /\ a # <<>> /\ Unfolds(more, a[1]) /\ more \in Seq(Tasks)
      /\ b = more \o Tail(a) /\ Apart(a)
  BY DEF StepTo, AgendaInv, Ordered, Replaces, Unfolds
<1>2. \/ i \in 1 .. Len(more) /\ b[i] = more[i]
      \/ i - Len(more) + 1 \in 2 .. Len(a) /\ b[i] = a[i - Len(more) + 1]
  BY <1>1, JoinIs
<1>3. a[1] \in Tasks /\ 1 \in 1 .. Len(a) /\ a[1].at \in Path /\ Len(a) \in Nat
  <2>1. a[1] \in Tasks /\ Len(a) \in Nat \ {0}
    BY <1>1, RestIs
  <2> QED BY <2>1, TaskTyped
<1>4. CASE i \in 1 .. Len(more) /\ b[i] = more[i]
  <2>1. more[i] \in Tasks
    BY <1>1, <1>4, ElementOfSeq
  <2>2. Above(a[1].at, more[i].at) /\ more[i].at \in Path
    BY <1>1, <1>4, <2>1, TaskTyped DEF Unfolds
  <2>3. b[i].at # a[1].at
    <3>1. Above(a[1].at, a[1].at)
      BY <1>3, AboveOrder
    <3> QED BY <3>1 DEF Awaited, Awaits
  <2> QED BY <1>3, <1>4, <2>2, <2>3, BelowIsAfter
<1>5. CASE i - Len(more) + 1 \in 2 .. Len(a) /\ b[i] = a[i - Len(more) + 1]
  <2> DEFINE j == i - Len(more) + 1
  <2>1. j \in 1 .. Len(a) /\ b[i] = a[j] /\ 1 < j
    BY <1>3, <1>5
  <2> HIDE DEF j
  <2>2. Unrelated(a[1], a[j])
    BY <1>1, <1>3, <2>1 DEF Apart
  <2> QED BY <2>1, <2>2 DEF Unrelated
<1> QED BY <1>2, <1>4, <1>5

\* The order after a step that makes no scope, or one for the node it visits.
LEMMA OrderGrows ==
  ASSUME NEW a, NEW more, NEW b, StepTo(a, more, b),
         NEW sc \in Seq(ScopeSet), NEW sd \in Seq(ScopeSet), SourceOrder(sc, a),
         \A s \in 1 .. Len(sc) : s \in 1 .. Len(sd) /\ sd[s].at = sc[s].at,
         \/ Len(sd) = Len(sc)
         \/ /\ Len(sd) = Len(sc) + 1 /\ sd[Len(sd)].at = a[1].at /\ a[1].do = "visit"
            /\ a[1].at # <<>> /\ ~Awaited(b, a[1].at)
  PROVE  SourceOrder(sd, b)
<1>1. Len(sc) \in Nat /\ Len(sd) \in Nat
  BY LenProperties
<1>2. /\ \A s \in 1 .. Len(sc) : sc[s].at \in Path
      /\ a[1] \in Tasks /\ a[1].at \in Path /\ 1 \in 1 .. Len(a)
  BY AtSequences, HeadIs DEF StepTo
<1>3. \A s \in 1 .. Len(sd) :
        \/ s \in 1 .. Len(sc)
        \/ /\ s = Len(sc) + 1 /\ s = Len(sd) /\ sd[s].at = a[1].at /\ a[1].do = "visit"
           /\ a[1].at # <<>> /\ ~Awaited(b, a[1].at)
  BY <1>1
<1>4. ASSUME NEW s \in 1 .. Len(sd), NEW q \in 1 .. Len(sd), s < q
      PROVE  Precedes(sd[s].at, sd[q].at)
  <2>1. s \in 1 .. Len(sc)
    BY <1>1, <1>4
  <2>2. CASE q \in 1 .. Len(sc)
    BY <1>4, <2>1, <2>2 DEF SourceOrder
  <2>3. CASE q \notin 1 .. Len(sc)
    <3>1. sd[q].at = a[1].at /\ a[1].do = "visit" /\ a[1].at # <<>>
      BY <1>3, <2>3
    <3>2. CASE sc[s].at = <<>>
      <4>1. Above(<<>>, a[1].at) /\ <<>> \in Path
        BY <1>2 DEF Above, Path
      <4> QED BY <1>2, <2>1, <3>1, <3>2, <4>1, BelowIsAfter
    <3>3. CASE sc[s].at # <<>>
      BY <1>2, <2>1, <3>1, <3>3 DEF SourceOrder
    <3> QED BY <3>2, <3>3
  <2> QED BY <2>2, <2>3
<1>5. ASSUME NEW s \in 1 .. Len(sd), NEW i \in 1 .. Len(b), sd[s].at # <<>>, b[i].do = "visit"
      PROVE  Precedes(sd[s].at, b[i].at)
  <2>1. CASE s \in 1 .. Len(sc)
    BY <1>5, <2>1, OrderAfter
  <2>2. CASE s \notin 1 .. Len(sc)
    <3>1. sd[s].at = a[1].at /\ a[1].do = "visit" /\ ~Awaited(b, a[1].at)
      BY <1>3, <2>2
    <3> QED BY <1>5, <3>1, HeadBefore
  <2> QED BY <2>1, <2>2
<1> QED BY <1>4, <1>5 DEF SourceOrder

OrderInv == status # "start" => SourceOrder(scopes, agenda)

\* A step of the analysis either turns to what the head is replaced by, or leaves
\* the agenda as it is.
LEMMA OrderStep ==
  ASSUME Inv, [Next]_vars, status = "running", SourceOrder(scopes, agenda),
         scopes' \in Seq(ScopeSet)
  PROVE  SourceOrder(scopes', agenda')
<1>1. /\ \A s \in 1 .. Len(scopes) : s \in 1 .. Len(scopes') /\ scopes'[s].at = scopes[s].at
      /\ ScopedVisit \/ VisitFunction => scopes'[Len(scopes')].at = agenda[1].at
      /\ Len(scopes') = Len(scopes) + (IF ScopedVisit \/ VisitFunction THEN 1 ELSE 0)
  BY ScopesGrow
<1>2. scopes \in Seq(ScopeSet) /\ Len(scopes) \in Nat
  BY LenProperties DEF Inv, Structure, ScopesInv
<1>3. CASE ScopedVisit \/ VisitFunction
  <2>1. /\ agenda[1].do = "visit" /\ ~Awaited(agenda', agenda[1].at)
        /\ ast[agenda[1].at].kind \in {"block", "for", "function"} /\ agenda # <<>>
        /\ \E more : StepTo(agenda, more, agenda')
    <3>1. CASE ScopedVisit
      <4>1. /\ DescendsFar(agenda[1].at) /\ agenda[1].do = "visit" /\ agenda # <<>>
            /\ ast[agenda[1].at].kind \in {"block", "for"} /\ WellFormed(ast)
        BY <3>1, ScopedVisits, Trees
      <4>2. PICK more : Turns(more) /\ Keeps(more, agenda[1].at)
        BY <4>1 DEF DescendsFar
      <4>3. StepTo(agenda, more, agenda')
        BY <4>2 DEF Turns
      <4>4. ~Awaited(agenda', agenda[1].at)
        BY <4>1, <4>2, <4>3, OnlyHead
      <4> QED BY <4>1, <4>3, <4>4
    <3>2. CASE VisitFunction
      <4> DEFINE f == agenda[1].at
                 more == <<Task("visit", Append(f, ast[f].arity)),
                           [do |-> "leave", at |-> f, saved |-> current]>>
      <4>1. /\ Turns(more) /\ ~Awaited(more, f) /\ agenda[1].do = "visit" /\ agenda # <<>>
            /\ ast[f].kind = "function"
        BY <3>2, Functions
      <4>2. f \in Path
        BY <4>1, NowIs
      <4> HIDE DEF more
      <4>3. StepTo(agenda, more, agenda') /\ Above(f, f)
        BY <4>1, <4>2, AboveOrder DEF Turns
      <4>4. ~Awaited(agenda', f)
        BY <4>1, <4>2, <4>3, AwaitedAfter
      <4> QED BY <4>1, <4>3, <4>4
    <3> QED BY <1>3, <3>1, <3>2
  <2>2. agenda[1].at # <<>>
    BY <2>1, Trees, NodesArePaths
  <2>3. PICK more : StepTo(agenda, more, agenda')
    BY <2>1
  <2>4. Len(scopes') = Len(scopes) + 1 /\ scopes'[Len(scopes')].at = agenda[1].at
    BY <1>1, <1>3
  <2> QED BY <1>1, <1>2, <2>1, <2>2, <2>3, <2>4, OrderGrows
<1>4. CASE /\ ~(ScopedVisit \/ VisitFunction)
           /\ PlainVisit \/ Check \/ PopScope \/ LeaveFunction \/ VisitAssignment
                \/ VisitDeclaration
  <2>1. \E more : Turns(more)
    BY <1>4, PlainVisits, Checks, Leavings, Assignments, Declarations DEF Descends
  <2>2. PICK more : StepTo(agenda, more, agenda')
    BY <2>1 DEF Turns
  <2>3. Len(scopes') = Len(scopes)
    BY <1>1, <1>2, <1>4
  <2> QED BY <1>1, <1>2, <2>2, <2>3, OrderGrows
<1>5. CASE Analyze \/ Finish \/ Terminated \/ UNCHANGED vars
  <2>1. agenda' = agenda /\ scopes' = scopes
    BY <1>5 DEF Analyze, Finish, Terminated, vars
  <2> QED BY <2>1
<1> QED BY <1>3, <1>4, <1>5 DEF Next, PlainVisit, ScopedVisit, Check

LEMMA SameOrder ==
  ASSUME ast' = ast, SourceOrder(scopes', agenda')
  PROVE  SourceOrder(scopes, agenda)'
BY DEF SourceOrder, Precedes

LEMMA OrderInit ==
  ASSUME Init PROVE OrderInv
BY DEF Init, OrderInv

LEMMA OrderNext ==
  ASSUME Inv, OrderInv, [Next]_vars PROVE OrderInv'
<1>1. ast' = ast
  BY DEF Next, vars, Analyze, VisitProgram, VisitFunction, LeaveFunction, VisitDeclaration,
         CheckInitializer, VisitBlock, PopScope, VisitAssignment, VisitReturn, CheckReturn,
         VisitIfOrWhile, VisitFor, CheckCondition, VisitOperand, VisitBinary, CheckOperands,
         VisitCall, VisitLeaf, Finish, Terminated
<1>2. CASE status = "running"
  <2>1. SourceOrder(scopes, agenda)
    BY <1>2 DEF OrderInv
  <2>2. status' # "start" => scopes' \in Seq(ScopeSet)
    <3>1. Inv'
      BY InvNext
    <3> QED BY <1>1, <3>1 DEF Inv, Structure, ScopesInv, ScopeSet, Path
  <2>3. status' # "start" => SourceOrder(scopes', agenda')
    BY <1>2, <2>1, <2>2, OrderStep
  <2> QED BY <1>1, <2>3, SameOrder DEF OrderInv
<1>3. CASE Analyze
  <2>1. agenda' = <<Task("visit", <<>>)>> /\ scopes' = <<Scope(0, <<>>)>>
    BY <1>3 DEF Analyze
  <2>2. <<>> \in Path
    BY Trees, NodesArePaths
  <2>3. Scope(0, <<>>).at = <<>>
    BY <2>2, EmptyScope
  <2> DEFINE new == Scope(0, <<>>)
  <2>4. Len(scopes') = 1 /\ scopes'[1].at = <<>>
    <3> HIDE DEF new
    <3>1. scopes' = <<new>>
      BY <2>1 DEF new
    <3> QED BY <2>3, <3>1 DEF new
  <2>5. SourceOrder(scopes', agenda')
    <3>1. \A s \in 1 .. Len(scopes') : s = 1
      BY <2>4
    <3>2. \A s, q \in 1 .. Len(scopes') : ~(s < q)
      BY <3>1
    <3>3. \A s \in 1 .. Len(scopes') : scopes'[s].at = <<>>
      BY <2>4, <3>1
    <3> QED BY <3>2, <3>3 DEF SourceOrder
  <2> QED BY <1>1, <2>5, SameOrder DEF OrderInv
<1>4. CASE status # "running" /\ ~Analyze
  <2>1. UNCHANGED vars
    BY <1>4 DEF Next, vars, VisitProgram, VisitFunction, LeaveFunction, VisitDeclaration,
         CheckInitializer, VisitBlock, PopScope, VisitAssignment, VisitReturn, CheckReturn,
         VisitIfOrWhile, VisitFor, CheckCondition, VisitOperand, VisitBinary, CheckOperands,
         VisitCall, VisitLeaf, Finish, Terminated, At
  <2>2. agenda' = agenda /\ scopes' = scopes /\ status' = status
    BY <2>1 DEF vars
  <2> QED BY <1>1, <2>2, SameOrder DEF OrderInv
<1> QED BY <1>2, <1>3, <1>4

-----------------------------------------------------------------------------
(* The calls of indexAST *)

AllVisits(list) == \A k \in 1 .. Len(list) : list[k].do = "visit"

\* The children that a node is replaced by are visited, nothing else is done.
LEMMA OnlyVisits ==
  ASSUME NEW p \in Path, NEW from \in Nat \ {0}, NEW to \in Nat, from - 1 <= to
  PROVE  AllVisits(Visits(p, from, to))
<1>1. PICK f : Visits(p, from, to) = f[to] /\ IsListing(f, p, from, to)
  BY VisitsRule
<1>2. IsListing(f, p, from, to)
  BY <1>1
<1> DEFINE Holds(n) == f[n] \in Seq(Tasks) /\ AllVisits(f[n])
           T == {n \in Nat : from - 1 <= n /\ n <= to /\ ~Holds(n)}
<1>3. SUFFICES ASSUME T # {} PROVE FALSE
  <2>1. to \notin T => AllVisits(f[to])
    OBVIOUS
  <2> QED BY <1>1, <1>3, <2>1
<1>4. PICK m \in T : \A k \in T : m <= k
  <2>1. T \subseteq Nat
    OBVIOUS
  <2> HIDE DEF T
  <2> QED BY <1>3, <2>1, LeastNumber
<1>5. m \in Nat /\ from - 1 <= m /\ m <= to /\ ~Holds(m)
  OBVIOUS
<1>6. m - 1 \in Nat /\ m >= from => Holds(m - 1)
  <2>1. m - 1 \notin T
    <3> HIDE DEF T
    <3> QED BY <1>4, <1>5
  <2> QED BY <2>1, <1>5
<1> HIDE DEF T
<1>7. m \in from - 1 .. to
  BY <1>5
<1>8. CASE m < from
  <2>1. f[m] = <<>>
    BY <1>2, <1>7, <1>8, ListingAt
  <2> QED BY <1>5, <2>1 DEF AllVisits
<1>9. CASE ~(m < from) /\ Append(p, m) \notin DOMAIN ast
  <2>1. f[m] = f[m - 1]
    BY <1>2, <1>7, <1>9, ListingAt
  <2> QED BY <1>5, <1>6, <1>9, <2>1
<1>10. CASE ~(m < from) /\ Append(p, m) \in DOMAIN ast
  <2> DEFINE t == Task("visit", Append(p, m))
             g == f[m - 1]
  <2>1. f[m] = Append(g, t)
    <3>1. m \in from - 1 .. to /\ m >= from /\ m \in Int
      BY <1>5, <1>7, <1>10
    <3> HIDE DEF t
    <3> QED BY <1>2, <1>10, <3>1 DEF IsListing, t
  <2>2. t \in Tasks /\ t.do = "visit"
    BY <1>5, ChildIs, TaskIs DEF Doings
  <2>3. g \in Seq(Tasks) /\ AllVisits(g)
    BY <1>5, <1>6, <1>10
  <2> HIDE DEF t, g
  <2>4. /\ Append(g, t) \in Seq(Tasks) /\ Len(Append(g, t)) = Len(g) + 1 /\ Len(g) \in Nat
        /\ \A k \in 1 .. Len(g) : Append(g, t)[k] = g[k]
        /\ Append(g, t)[Len(g) + 1] = t
    BY <2>2, <2>3, AppendProperties, LenProperties
  <2>5. AllVisits(Append(g, t))
    <3> SUFFICES ASSUME NEW k \in 1 .. Len(g) + 1 PROVE Append(g, t)[k].do = "visit"
      BY <2>4 DEF AllVisits
    <3>1. k \in 1 .. Len(g) \/ k = Len(g) + 1
      BY <2>4
    <3> QED BY <2>2, <2>3, <2>4, <3>1 DEF AllVisits
  <2> QED BY <1>5, <2>1, <2>4, <2>5
<1> QED BY <1>8, <1>9, <1>10

\* The calls that are still to be made follow the source and do not overlap.
Calls(a) == Ordered(a) /\ AllVisits(a)

LEMMA FirstCall ==
  ASSUME WellFormed(ast)
  PROVE  LET a == <<Task("visit", <<>>)>> IN
         Calls(a) /\ \A x \in Path : Awaited(a, x)
<1> DEFINE t == Task("visit", <<>>)
           a == <<t>>
<1>1. <<>> \in DOMAIN ast /\ <<>> \in Path /\ ast[<<>>].kind = "program"
  BY NodesArePaths
<1>2. t \in Tasks /\ t.do = "visit" /\ t.at = <<>>
  BY <1>1, TaskIs DEF Doings
<1> HIDE DEF t
<1>3. Fits(t)
  BY <1>1, <1>2 DEF Fits
<1>4. a \in Seq(Tasks) /\ Len(a) = 1 /\ a[1] = t
  BY <1>2
<1> HIDE DEF a
<1>5. \A i \in 1 .. Len(a) : i = 1
  BY <1>4
<1>6. ASSUME NEW x \in Path PROVE Awaited(a, x)
  BY <1>2, <1>4 DEF Awaited, Awaits, Above
<1>7. InOrder(a)
  <2> SUFFICES ASSUME NEW d \in Declarers
      PROVE  Precedes(d, PosOf(t)) <=> ~Awaited(a, d)
    BY <1>4, <1>5 DEF InOrder, Awaited
  <2>1. d \in Path
    BY DeclarersAre
  <2>2. Above(<<>>, d)
    BY <2>1 DEF Above, Path
  <2>3. ~Precedes(d, <<>>)
    BY <1>1, <2>1, <2>2, PrecedesOrder
  <2> QED BY <1>2, <1>6, <2>1, <2>3 DEF PosOf
<1>8. Apart(a)
  BY <1>4 DEF Apart
<1>9. Calls(a)
  BY <1>2, <1>3, <1>4, <1>5, <1>7, <1>8 DEF Calls, AllVisits, Ordered
<1> QED BY <1>6, <1>9 DEF a, t

\* A call is replaced by those for the children of its node, in the slots S.
LEMMA CallReplaced ==
  ASSUME WellFormed(ast), NEW a, Calls(a), a # <<>>,
         NEW S, Covers(S, a[1].at), NEW list, Lists(list, a[1].at, S), AllVisits(list)
  PROVE  LET p == a[1].at
             b == list \o Tail(a)
         IN /\ Calls(b) /\ Awaited(a, p) /\ ~Awaited(b, p)
            /\ \A x \in Path : Awaited(b, x) => Awaited(a, x)
            /\ \A x \in Path : Awaited(a, x) /\ ~Awaited(b, x) /\ x # p =>
                 Above(p, x) /\ x[Len(p) + 1] \notin S
<1> DEFINE p == a[1].at
           b == list \o Tail(a)
<1>1. /\ Ordered(a) /\ a \in Seq(Tasks) /\ Apart(a) /\ AllVisits(a)
      /\ \A i \in 1 .. Len(a) : Fits(a[i])
  BY DEF Calls, Ordered
<1>2. a[1] \in Tasks /\ Len(a) \in Nat \ {0} /\ 1 \in 1 .. Len(a)
  BY <1>1, RestIs
<1>3. a[1].do = "visit" /\ Fits(a[1]) /\ p \in DOMAIN ast /\ p \in Path
  BY <1>1, <1>2, VisitedNode DEF AllVisits
<1>4. list \in Seq(Tasks)
  BY DEF Lists
<1>5. Ends(<<>>, p) /\ list \o <<>> = list
  BY <1>4, ConcatNone DEF Ends
<1>6. Unfolds(list, a[1])
  BY <1>2, <1>3, <1>5, ListUnfolds
<1>7. Ordered(b)
  BY <1>1, <1>3, <1>6, OrderStays
<1>8. AllVisits(b)
  <2>1. \A i \in 1 .. Len(b) :
          \/ i \in 1 .. Len(list) /\ b[i] = list[i]
          \/ i - Len(list) + 1 \in 2 .. Len(a) /\ b[i] = a[i - Len(list) + 1]
    BY <1>1, <1>4, JoinIs
  <2>2. \A i \in 2 .. Len(a) : i \in 1 .. Len(a)
    BY <1>2
  <2> HIDE DEF b
  <2> QED BY <1>1, <2>1, <2>2 DEF AllVisits
<1>9. ASSUME NEW x \in Path
      PROVE  /\ Awaited(b, x) <=> Awaited(list, x) \/ Awaits(a, 2, x)
             /\ Awaited(a, x) <=> Above(p, x) \/ Awaits(a, 2, x)
             /\ Awaited(list, x) <=> Above(p, x) /\ x # p /\ x[Len(p) + 1] \in S
  <2>1. Awaited(list, x) <=> Above(p, x) /\ x # p /\ x[Len(p) + 1] \in S
    <3>1. Covers(S, p) /\ Lists(list, p, S)
      OBVIOUS
    <3> HIDE DEF p
    <3>2. Awaited(list \o <<>>, x) <=> Above(p, x) /\ x # p /\ x[Len(p) + 1] \in S
      BY <1>3, <1>5, <3>1, ListAwaits
    <3> QED BY <1>5, <3>2
  <2>2. 1 \in 1 .. Len(list) + 1
    BY <1>4, LenProperties
  <2>3. Awaited(b, x) <=> Awaited(list, x) \/ Awaits(a, 2, x)
    BY <1>1, <1>4, <2>2, AwaitsJoin DEF Awaited
  <2>4. Awaited(a, x) <=> Above(p, x) \/ Awaits(a, 2, x)
    BY <1>1, <1>3, AwaitedSplit
  <2> QED BY <2>1, <2>3, <2>4
<1>10. Above(p, p) /\ ~Awaits(a, 2, p)
  <2>1. Above(p, p)
    BY <1>3, AboveOrder
  <2> QED BY <1>1, <1>3, <2>1, ApartBelow
<1> HIDE DEF p, b
<1>11. Awaited(a, p) /\ ~Awaited(b, p)
  BY <1>3, <1>9, <1>10
<1>12. Calls(b)
  BY <1>7, <1>8 DEF Calls
<1> QED BY <1>9, <1>11, <1>12 DEF p, b

\* The slots that indexAST follows from a node: a function's is its body.
From(p) == IF ast[p].kind = "function" THEN ast[p].arity ELSE 1

\* A call records its node, or nothing: the functions and variables that have
\* been recorded before it are those before the node in the source.
LEMMA CallMade ==
  ASSUME WellFormed(ast), NEW a, Calls(a), a # <<>>
  PROVE  LET p == a[1].at
             b == Visits(p, From(p), ast[p].arity) \o Tail(a)
         IN /\ Calls(b) /\ p \in DOMAIN ast
            /\ \A d \in Recorded : ~Awaited(b, d) <=> ~Awaited(a, d) \/ d = p
            /\ \A d \in Recorded : ~Awaited(a, d) => Precedes(d, p) /\ d # p
<1> DEFINE p    == a[1].at
           list == Visits(p, From(p), ast[p].arity)
           S    == Slots(p, From(p), ast[p].arity)
           b    == list \o Tail(a)
<1>1. /\ Ordered(a) /\ a \in Seq(Tasks) /\ InOrder(a) /\ AllVisits(a)
      /\ \A i \in 1 .. Len(a) : Fits(a[i])
  BY DEF Calls, Ordered
<1>2. a[1] \in Tasks /\ 1 \in 1 .. Len(a)
  BY <1>1, RestIs
<1>3. a[1].do = "visit" /\ Fits(a[1]) /\ p \in DOMAIN ast /\ p \in Path
  BY <1>1, <1>2, VisitedNode DEF AllVisits
<1> HIDE DEF p
<1>4. /\ ast[p].arity \in Nat /\ From(p) \in Nat \ {0} /\ From(p) - 1 <= ast[p].arity
  BY <1>3, AritiesAre DEF From
<1>5. Lists(list, p, S) /\ AllVisits(list)
  BY <1>3, <1>4, VisitsAre, OnlyVisits
<1>6. Covers(S, p)
  <2>1. CASE ast[p].kind = "function"
    BY <1>3, <2>1, BodyCovers DEF From
  <2>2. CASE ast[p].kind # "function"
    BY <1>3, <2>2, AllCovers DEF From, AllSlots
  <2> QED BY <2>1, <2>2
<1> HIDE DEF list, S
<1>7. /\ Calls(b) /\ Awaited(a, p) /\ ~Awaited(b, p)
      /\ \A x \in Path : Awaited(b, x) => Awaited(a, x)
      /\ \A x \in Path : Awaited(a, x) /\ ~Awaited(b, x) /\ x # p =>
           Above(p, x) /\ x[Len(p) + 1] \notin S
  BY <1>5, <1>6, CallReplaced DEF p
<1> HIDE DEF b
<1>8. ASSUME NEW d \in Recorded
      PROVE  d \in Path /\ d \in DOMAIN ast /\ d \in Declarers /\ ast[d].kind # "parameter"
  BY <1>8, DeclarersAre DEF Recorded
<1>9. ASSUME NEW d \in Recorded, Awaited(a, d), ~Awaited(b, d), d # p PROVE FALSE
  <2>1. d \in Path /\ d \in DOMAIN ast /\ ast[d].kind # "parameter"
    BY <1>8
  <2>2. Above(p, d) /\ d[Len(p) + 1] \notin S
    BY <1>7, <1>9, <2>1
  <2>3. CASE ast[p].kind # "function"
    <3>1. d[Len(p) + 1] \in AllSlots(p)
      BY <1>3, <1>9, <2>1, <2>2, <2>3, AllCovers
    <3> QED BY <2>2, <2>3, <3>1 DEF AllSlots, From, S
  <2>4. CASE ast[p].kind = "function"
    <3>1. S = {ast[p].arity}
      BY <1>3, <2>4, BodyCovers DEF From, S
    <3>2. ~Above(Append(p, ast[p].arity), d)
      BY <1>3, <1>4, <2>1, <2>2, <3>1, ChildAbove
    <3> QED BY <1>3, <1>9, <2>1, <2>2, <2>4, <3>2, BelowFunction
  <2> QED BY <2>3, <2>4
<1>10. \A d \in Recorded : ~Awaited(b, d) <=> ~Awaited(a, d) \/ d = p
  BY <1>7, <1>8, <1>9
<1>11. ASSUME NEW d \in Recorded, ~Awaited(a, d) PROVE Precedes(d, p) /\ d # p
  <2>1. PosOf(a[1]) = p /\ a[1].do \notin Ending
    BY <1>3 DEF PosOf, Ending, p
  <2>2. Precedes(d, p)
    BY <1>1, <1>2, <1>8, <1>11, <2>1 DEF InOrder, Awaited
  <2> QED BY <1>7, <1>11, <2>2
<1> QED BY <1>3, <1>7, <1>10, <1>11 DEF p, list, b

-----------------------------------------------------------------------------
(* The index *)

\* What has been recorded when the calls in a are still to be made.
Seen(a) == {d \in Recorded : ~Awaited(a, d)}

Entry(d) == [kind |-> Declared(d).kind, definition |-> ast[d].type]

\* d is the last one of its name that has been recorded.
IsLatest(d, a) ==
  /\ d \in Seen(a)
  /\ \A e \in Seen(a) \ {d} : ast[e].name = ast[d].name => Precedes(e, d)

IndexHolds(table, a) ==
  /\ DOMAIN table = {ast[d].name : d \in Seen(a)}
  /\ \A name \in DOMAIN table : \E d \in Recorded :
       IsLatest(d, a) /\ ast[d].name = name /\ table[name] = Entry(d)

IndexInv ==
  /\ phase \in {"analysis", "summary", "indexing", "printed"}
  /\ phase # "analysis" => status = "done" /\ reports = {}
  /\ phase \in {"indexing", "printed"} => Calls(pending) /\ IndexHolds(symbols, pending)
  /\ phase = "printed" => pending = <<>>

\* A call that records the node p.
LEMMA HoldsAdded ==
  ASSUME WellFormed(ast), NEW table, NEW a, IndexHolds(table, a), NEW b, NEW p \in Recorded,
         \A d \in Recorded : ~Awaited(b, d) <=> ~Awaited(a, d) \/ d = p,
         \A d \in Recorded : ~Awaited(a, d) => Precedes(d, p) /\ d # p
  PROVE  IndexHolds(AddSymbol(table, ast[p].name, Entry(p)), b)
<1> DEFINE name == ast[p].name
           new  == AddSymbol(table, name, Entry(p))
<1>1. /\ DOMAIN new = DOMAIN table \cup {name} /\ new[name] = Entry(p)
      /\ \A other \in DOMAIN table : other # name => new[other] = table[other]
  BY DEF AddSymbol
<1> HIDE DEF new
<1>2. Seen(b) = Seen(a) \cup {p} /\ p \notin Seen(a)
  BY DEF Seen
<1>3. DOMAIN new = {ast[d].name : d \in Seen(b)}
  <2>1. {ast[d].name : d \in Seen(b)} = {ast[d].name : d \in Seen(a)} \cup {name}
    BY <1>2
  <2> QED BY <1>1, <2>1 DEF IndexHolds
<1>4. IsLatest(p, b)
  BY <1>2 DEF IsLatest, Seen
<1>5. ASSUME NEW other \in DOMAIN table, other # name
      PROVE  \E d \in Recorded : IsLatest(d, b) /\ ast[d].name = other /\ new[other] = Entry(d)
  <2>1. PICK d \in Recorded : IsLatest(d, a) /\ ast[d].name = other /\ table[other] = Entry(d)
    BY <1>5 DEF IndexHolds
  <2>2. IsLatest(d, b)
    BY <1>2, <1>5, <2>1 DEF IsLatest
  <2> QED BY <1>1, <1>5, <2>1, <2>2
<1>6. \A other \in DOMAIN new : \E d \in Recorded :
        IsLatest(d, b) /\ ast[d].name = other /\ new[other] = Entry(d)
  BY <1>1, <1>4, <1>5
<1>7. IndexHolds(new, b)
  BY <1>3, <1>6 DEF IndexHolds
<1> QED BY <1>7 DEF new

\* A call that records nothing.
LEMMA HoldsSame ==
  ASSUME NEW table, NEW a, IndexHolds(table, a), NEW b,
         \A d \in Recorded : ~Awaited(b, d) <=> ~Awaited(a, d)
  PROVE  IndexHolds(table, b)
<1>1. Seen(b) = Seen(a)
  BY DEF Seen
<1> QED BY <1>1 DEF IndexHolds, IsLatest

LEMMA SameIndex ==
  ASSUME ast' = ast, Calls(pending'), IndexHolds(symbols', pending')
  PROVE  Calls(pending)' /\ IndexHolds(symbols, pending)'
<1>1. /\ Declarers' = Declarers /\ (DOMAIN ast)' = DOMAIN ast
      /\ \A d : Declared(d)' = Declared(d)
  BY SameTree
<1>2. Recorded' = Recorded
  BY <1>1 DEF Recorded
<1>3. Calls(pending)'
  BY <1>1 DEF Calls, AllVisits, Ordered, InOrder, Apart, Fits, Unrelated, Awaits, Above,
              Precedes, PosOf, Tasks, Path, Doings, Ending
<1>4. IndexHolds(symbols, pending)'
  <2>1. Seen(pending)' = Seen(pending')
    BY <1>2 DEF Seen, Awaited, Awaits, Above
  <2>2. \A d : Entry(d)' = Entry(d)
    BY <1>1 DEF Entry
  <2>3. \A d : IsLatest(d, pending)' <=> IsLatest(d, pending')
    BY <2>1 DEF IsLatest, Precedes
  <2> QED BY <1>2, <2>1, <2>2, <2>3 DEF IndexHolds
<1> QED BY <1>3, <1>4

LEMMA IndexInvInit ==
  ASSUME IndexInit PROVE IndexInv
BY DEF IndexInit, IndexInv

\* A call of indexAST.
LEMMA IndexCall ==
  ASSUME Inv, IndexInv, IndexFunction \/ IndexDeclaration \/ Walk
  PROVE  IndexInv'
<1> DEFINE p == Indexed
           b == Visits(p, From(p), ast[p].arity) \o Tail(pending)
<1>1. /\ phase = "indexing" /\ pending # <<>> /\ phase' = phase
      /\ status' = status /\ reports' = reports /\ ast' = ast
  BY DEF IndexFunction, IndexDeclaration, Walk, Indexes, vars
<1>2. /\ WellFormed(ast) /\ Calls(pending) /\ IndexHolds(symbols, pending)
      /\ status = "done" /\ reports = {}
  BY <1>1, Trees DEF IndexInv
<1>3. p = pending[1].at
  BY <1>1, <1>2, RestIs DEF Calls, Ordered, Indexed
<1> HIDE DEF p
<1>4. /\ Calls(b) /\ p \in DOMAIN ast
      /\ \A d \in Recorded : ~Awaited(b, d) <=> ~Awaited(pending, d) \/ d = p
      /\ \A d \in Recorded : ~Awaited(pending, d) => Precedes(d, p) /\ d # p
  BY <1>1, <1>2, <1>3, CallMade
<1>5. CASE IndexFunction \/ IndexDeclaration
  <2>1. ast[p].kind \in {"function", "declaration"}
    BY <1>5 DEF IndexFunction, IndexDeclaration, Indexes, p
  <2>2. p \in Recorded
    BY <1>4, <2>1 DEF Recorded, Declarers, DeclarerKinds
  <2>3. symbols' = AddSymbol(symbols, ast[p].name, Entry(p))
    BY <1>5 DEF IndexFunction, IndexDeclaration, Indexes, Record, Entry, Declared, p
  <2>4. pending' = b
    <3>1. ast[p].kind = "declaration" => ast[p].arity = 1
      BY <1>2, <1>4, AritiesAre DEF Arities
    <3> QED BY <1>5, <2>1, <3>1 DEF IndexFunction, IndexDeclaration, Indexes, Descend, From, p
  <2> HIDE DEF b
  <2>5. IndexHolds(AddSymbol(symbols, ast[p].name, Entry(p)), b)
    BY <1>2, <1>4, <2>2, HoldsAdded
  <2>6. IndexHolds(symbols', pending')
    BY <2>3, <2>4, <2>5
  <2> QED BY <1>1, <1>2, <1>4, <2>4, <2>6, SameIndex DEF IndexInv
<1>6. CASE Walk
  <2>1. ast[p].kind \in Walked /\ symbols' = symbols
    BY <1>6 DEF Walk, Indexes, p
  <2>2. p \notin Recorded /\ ast[p].kind # "function"
    BY <2>1 DEF Recorded, Declarers, DeclarerKinds, Walked
  <2>3. pending' = b
    BY <1>6, <2>2 DEF Walk, Descend, From, p
  <2>4. \A d \in Recorded : ~Awaited(b, d) <=> ~Awaited(pending, d)
    BY <1>4, <2>2
  <2>5. IndexHolds(symbols', pending')
    BY <1>2, <2>1, <2>3, <2>4, HoldsSame
  <2> QED BY <1>1, <1>2, <1>4, <2>3, <2>5, SameIndex DEF IndexInv
<1> QED BY <1>5, <1>6

LEMMA IndexInvNext ==
  ASSUME Inv, IndexInv, [IndexNext]_<<vars, indexVars>> PROVE IndexInv'
<1>1. CASE Analysis
  BY <1>1 DEF Analysis, indexVars, IndexInv
<1>2. CASE StartIndex
  <2>1. /\ status' = status /\ reports' = reports /\ ast' = ast
        /\ status = "done" /\ reports = {} /\ phase' = "indexing"
        /\ symbols' = NoSymbols /\ pending' = <<Task("visit", <<>>)>> /\ WellFormed(ast)
    BY <1>2, Trees DEF StartIndex, Analyzed, Summarized, IndexInv, vars
  <2>2. Calls(pending') /\ \A x \in Path : Awaited(pending', x)
    BY <2>1, FirstCall
  <2>3. Seen(pending') = {}
    BY <2>1, <2>2, DeclarersAre DEF Seen, Recorded
  <2>4. DOMAIN NoSymbols = {}
    BY DEF NoSymbols
  <2>5. IndexHolds(symbols', pending')
    BY <2>1, <2>3, <2>4 DEF IndexHolds
  <2> QED BY <2>1, <2>2, <2>5, SameIndex DEF IndexInv
<1>3. CASE IndexFunction \/ IndexDeclaration \/ Walk
  BY <1>3, IndexCall
<1>4. CASE PrintSymbols \/ Printed \/ UNCHANGED <<vars, indexVars>>
  <2>1. /\ status' = status /\ reports' = reports /\ ast' = ast
        /\ pending' = pending /\ symbols' = symbols
        /\ \/ phase' = phase
           \/ phase = "indexing" /\ phase' = "printed" /\ pending = <<>>
    BY <1>4 DEF PrintSymbols, Printed, vars, indexVars
  <2>2. phase \in {"indexing", "printed"} => Calls(pending) /\ IndexHolds(symbols, pending)
    BY DEF IndexInv
  <2>3. phase \in {"indexing", "printed"} => Calls(pending)' /\ IndexHolds(symbols, pending)'
    BY <2>1, <2>2, SameIndex
  <2> QED BY <2>1, <2>3 DEF IndexInv
<1>5. CASE StartSummary \/ PrintScope
  <2>1. /\ status' = status /\ reports' = reports /\ phase' = "summary"
        /\ status = "done" /\ reports = {}
    BY <1>5 DEF StartSummary, PrintScope, Analyzed, IndexInv, vars
  <2> QED BY <2>1 DEF IndexInv
<1> QED BY <1>1, <1>2, <1>3, <1>4, <1>5 DEF IndexNext

-----------------------------------------------------------------------------
(* The children of a scope *)

PrintCalls == [scope : Nat, indent : Nat]

\* The rule that Children is made of, for the first n scopes.
IsChildren(f, s, indent, n) ==
  f = [c \in 0 .. n |->
         CASE c = 0 -> <<>>
           [] c # 0 /\ scopes[c].parent = s ->
                Append(f[c - 1], [scope |-> c, indent |-> indent])
           [] c # 0 /\ scopes[c].parent # s -> f[c - 1]]

LEMMA ChildrenAt ==
  ASSUME NEW f, NEW s, NEW indent, NEW n \in Nat, IsChildren(f, s, indent, n),
         NEW c \in 0 .. n
  PROVE  /\ c = 0 => f[c] = <<>>
         /\ c # 0 /\ scopes[c].parent = s =>
              f[c] = Append(f[c - 1], [scope |-> c, indent |-> indent])
         /\ c # 0 /\ scopes[c].parent # s => f[c] = f[c - 1]
BY DEF IsChildren

LEMMA ChildrenExist ==
  ASSUME NEW s, NEW indent, NEW n \in Nat
  PROVE  \E f : IsChildren(f, s, indent, n)
<1> DEFINE T == {k \in Nat : ~ \E f : IsChildren(f, s, indent, k)}
<1>1. SUFFICES ASSUME T # {} PROVE FALSE
  OBVIOUS
<1>2. PICK m \in T : \A k \in T : m <= k
  <2>1. T \subseteq Nat
    OBVIOUS
  <2> HIDE DEF T
  <2> QED BY <1>1, <2>1, LeastNumber
<1>3. m # 0
  <2> DEFINE g == [c \in 0 .. 0 |-> <<>>]
  <2>1. ASSUME m = 0 PROVE IsChildren(g, s, indent, m)
    BY <2>1 DEF IsChildren
  <2> QED BY <1>2, <2>1
<1>4. m - 1 \in Nat /\ m - 1 \notin T /\ m \in Nat
  <2>1. m \in Nat
    OBVIOUS
  <2> HIDE DEF T
  <2> QED BY <1>2, <1>3, <2>1
<1>5. PICK f : IsChildren(f, s, indent, m - 1)
  BY <1>4
<1> DEFINE call == [scope |-> m, indent |-> indent]
           last == IF scopes[m].parent = s THEN Append(f[m - 1], call) ELSE f[m - 1]
           g == [c \in 0 .. m |-> IF c = m THEN last ELSE f[c]]
           new == [c \in 0 .. m |->
         CASE c = 0 -> <<>>
           [] c # 0 /\ scopes[c].parent = s ->
                Append(g[c - 1], [scope |-> c, indent |-> indent])
           [] c # 0 /\ scopes[c].parent # s -> g[c - 1]]
<1> HIDE DEF T
<1>6. ASSUME NEW c \in 0 .. m
      PROVE  g[c] = new[c]
  <2>1. CASE c = m
    <3>1. m - 1 \in 0 .. m /\ m - 1 # m /\ c # 0
      BY <1>3, <1>4, <2>1
    <3>2. g[m - 1] = f[m - 1]
      BY <3>1
    <3>3. g[c] = last
      BY <2>1
    <3>4. CASE scopes[m].parent = s
      <4>1. new[c] = Append(g[m - 1], call)
        BY <2>1, <3>1, <3>4
      <4> HIDE DEF g, new, call
      <4> QED BY <3>2, <3>3, <3>4, <4>1
    <3>5. CASE scopes[m].parent # s
      <4>1. new[c] = g[m - 1]
        BY <2>1, <3>1, <3>5
      <4> HIDE DEF g, new, call
      <4> QED BY <3>2, <3>3, <3>5, <4>1
    <3> QED BY <3>4, <3>5
  <2>2. CASE c # m /\ c = 0
    <3>1. c \in 0 .. m - 1
      BY <1>4, <2>2
    <3>2. f[c] = <<>>
      BY <1>4, <1>5, <2>2, <3>1, ChildrenAt
    <3>3. g[c] = f[c] /\ new[c] = <<>>
      BY <2>2
    <3> HIDE DEF g, new
    <3> QED BY <3>2, <3>3
  <2>3. CASE c # m /\ c # 0
    <3>1. c \in 0 .. m - 1 /\ c - 1 \in 0 .. m /\ c - 1 # m
      BY <1>4, <2>3
    <3>2. g[c] = f[c] /\ g[c - 1] = f[c - 1]
      BY <2>3, <3>1
    <3>3. CASE scopes[c].parent = s
      <4>1. new[c] = Append(g[c - 1], [scope |-> c, indent |-> indent])
        BY <2>3, <3>3
      <4>2. f[c] = Append(f[c - 1], [scope |-> c, indent |-> indent])
        BY <1>4, <1>5, <2>3, <3>1, <3>3, ChildrenAt
      <4> HIDE DEF g, new
      <4> QED BY <3>2, <4>1, <4>2
    <3>4. CASE scopes[c].parent # s
      <4>1. new[c] = g[c - 1]
        BY <2>3, <3>4
      <4> HIDE DEF g, new
      <4>2. f[c] = f[c - 1]
        BY <1>4, <1>5, <2>3, <3>1, <3>4 DEF IsChildren
      <4> QED BY <3>2, <4>1, <4>2
    <3> QED BY <3>3, <3>4
  <2> QED BY <2>1, <2>2, <2>3
<1>7. g = new
  BY <1>6
<1>8. IsChildren(g, s, indent, m)
  BY <1>7 DEF IsChildren
<1> QED BY <1>2, <1>8 DEF T

LEMMA ChildrenRule ==
  ASSUME NEW s, NEW indent, Len(scopes) \in Nat
  PROVE  \E f : Children(s, indent) = f[Len(scopes)] /\ IsChildren(f, s, indent, Len(scopes))
<1>1. PICK f : IsChildren(f, s, indent, Len(scopes))
  BY ChildrenExist
<1> DEFINE calls[c \in 0 .. Len(scopes)] ==
        CASE c = 0 -> <<>>
          [] c # 0 /\ scopes[c].parent = s ->
               Append(calls[c - 1], [scope |-> c, indent |-> indent])
          [] c # 0 /\ scopes[c].parent # s -> calls[c - 1]
<1>2. f = [c \in 0 .. Len(scopes) |->
        CASE c = 0 -> <<>>
          [] c # 0 /\ scopes[c].parent = s ->
               Append(f[c - 1], [scope |-> c, indent |-> indent])
          [] c # 0 /\ scopes[c].parent # s -> f[c - 1]]
  BY <1>1 DEF IsChildren
<1>3. calls = [c \in 0 .. Len(scopes) |->
        CASE c = 0 -> <<>>
          [] c # 0 /\ scopes[c].parent = s ->
               Append(calls[c - 1], [scope |-> c, indent |-> indent])
          [] c # 0 /\ scopes[c].parent # s -> calls[c - 1]]
  BY <1>2
<1>4. Children(s, indent) = calls[Len(scopes)]
  BY DEF Children
<1> HIDE DEF calls
<1>5. IsChildren(calls, s, indent, Len(scopes))
  BY <1>3 DEF IsChildren
<1> QED BY <1>4, <1>5

\* In the list are the calls for those of the first n scopes whose parent is s.
CallsBelow(list, s, indent, n) ==
  /\ list \in Seq(PrintCalls)
  /\ \A i \in 1 .. Len(list) :
       /\ list[i].scope \in 1 .. n /\ scopes[list[i].scope].parent = s
       /\ list[i].indent = indent
  /\ \A i, j \in 1 .. Len(list) : i < j => list[i].scope < list[j].scope
  /\ \A c \in 1 .. n : scopes[c].parent = s => \E i \in 1 .. Len(list) : list[i].scope = c

LEMMA ChildrenAre ==
  ASSUME Len(scopes) \in Nat, NEW s, NEW indent \in Nat
  PROVE  CallsBelow(Children(s, indent), s, indent, Len(scopes))
<1> DEFINE n == Len(scopes)
<1>1. PICK f : Children(s, indent) = f[n] /\ IsChildren(f, s, indent, n)
  BY ChildrenRule
<1>2. IsChildren(f, s, indent, n)
  BY <1>1
<1> DEFINE T == {k \in Nat : k <= n /\ ~CallsBelow(f[k], s, indent, k)}
<1>3. SUFFICES ASSUME T # {} PROVE FALSE
  <2>1. n \notin T => CallsBelow(f[n], s, indent, n)
    OBVIOUS
  <2> QED BY <1>1, <1>3, <2>1
<1>4. PICK m \in T : \A k \in T : m <= k
  <2>1. T \subseteq Nat
    OBVIOUS
  <2> HIDE DEF T
  <2> QED BY <1>3, <2>1, LeastNumber
<1>5. m \in Nat /\ m <= n /\ ~CallsBelow(f[m], s, indent, m) /\ m \in 0 .. n
  OBVIOUS
<1>6. m # 0 => m - 1 \in Nat /\ CallsBelow(f[m - 1], s, indent, m - 1)
  <2>1. m - 1 \notin T
    <3> HIDE DEF T
    <3> QED BY <1>4, <1>5
  <2> QED BY <2>1, <1>5
<1> HIDE DEF T, n
<1>7. CASE m = 0
  <2>1. f[m] = <<>>
    BY <1>2, <1>5, <1>7, ChildrenAt DEF n
  <2>2. CallsBelow(<<>>, s, indent, 0)
    BY DEF CallsBelow
  <2> QED BY <1>5, <1>7, <2>1, <2>2
<1>8. CASE m # 0 /\ scopes[m].parent # s
  <2>1. f[m] = f[m - 1]
    BY <1>2, <1>5, <1>8, ChildrenAt DEF n
  <2>2. CallsBelow(f[m - 1], s, indent, m - 1)
    BY <1>6, <1>8
  <2>3. \A c \in 1 .. m : c \in 1 .. m - 1 \/ c = m
    BY <1>5
  <2>4. \A c \in 1 .. m - 1 : c \in 1 .. m
    BY <1>5
  <2> DEFINE g == f[m - 1]
  <2>5. CallsBelow(g, s, indent, m - 1)
    BY <2>2
  <2> HIDE DEF g
  <2>6. CallsBelow(g, s, indent, m)
    BY <1>8, <2>3, <2>4, <2>5 DEF CallsBelow
  <2> QED BY <1>5, <2>1, <2>6 DEF g
<1>9. CASE m # 0 /\ scopes[m].parent = s
  <2> DEFINE g == f[m - 1]
             call == [scope |-> m, indent |-> indent]
             h == Append(g, call)
  <2>1. f[m] = h
    BY <1>2, <1>5, <1>9, ChildrenAt DEF n
  <2>2. CallsBelow(g, s, indent, m - 1)
    BY <1>6, <1>9
  <2>3. call \in PrintCalls /\ call.scope = m /\ call.indent = indent
    BY <1>5 DEF PrintCalls
  <2> HIDE DEF g, call
  <2>4. g \in Seq(PrintCalls)
    BY <2>2 DEF CallsBelow
  <2>5. /\ h \in Seq(PrintCalls) /\ Len(h) = Len(g) + 1 /\ Len(g) \in Nat
        /\ \A i \in 1 .. Len(g) : h[i] = g[i]
        /\ h[Len(g) + 1] = call
    BY <2>3, <2>4, AppendProperties, LenProperties
  <2> HIDE DEF h
  <2>6. \A i \in 1 .. Len(h) : i \in 1 .. Len(g) \/ i = Len(g) + 1
    BY <2>5
  <2>7. m \in 1 .. m /\ \A c \in 1 .. m - 1 : c \in 1 .. m /\ c < m
    BY <1>5, <1>9
  <2>8. ASSUME NEW i \in 1 .. Len(h)
        PROVE  /\ h[i].scope \in 1 .. m /\ scopes[h[i].scope].parent = s
               /\ h[i].indent = indent
    BY <1>9, <2>2, <2>3, <2>5, <2>6, <2>7 DEF CallsBelow
  <2>9. ASSUME NEW i \in 1 .. Len(h), NEW j \in 1 .. Len(h), i < j
        PROVE  h[i].scope < h[j].scope
    <3>1. i \in 1 .. Len(g)
      BY <2>5, <2>9
    <3>2. h[i] = g[i] /\ g[i].scope \in 1 .. m - 1
      BY <2>2, <2>5, <3>1 DEF CallsBelow
    <3>3. CASE j \in 1 .. Len(g)
      BY <2>2, <2>5, <2>9, <3>1, <3>3 DEF CallsBelow
    <3>4. CASE j = Len(g) + 1
      BY <2>3, <2>5, <2>7, <3>2, <3>4
    <3> QED BY <2>6, <3>3, <3>4
  <2>10. ASSUME NEW c \in 1 .. m, scopes[c].parent = s
         PROVE  \E i \in 1 .. Len(h) : h[i].scope = c
    <3>1. CASE c = m
      <4>1. Len(g) + 1 \in 1 .. Len(h)
        BY <2>5
      <4> QED BY <2>3, <2>5, <3>1, <4>1
    <3>2. CASE c # m
      <4>1. c \in 1 .. m - 1
        BY <1>5, <3>2
      <4>2. PICK i \in 1 .. Len(g) : g[i].scope = c
        BY <2>2, <2>10, <4>1 DEF CallsBelow
      <4>3. i \in 1 .. Len(h)
        BY <2>5
      <4> QED BY <2>5, <4>2, <4>3
    <3> QED BY <3>1, <3>2
  <2>11. CallsBelow(h, s, indent, m)
    BY <2>5, <2>8, <2>9, <2>10 DEF CallsBelow
  <2> QED BY <1>5, <2>1, <2>11
<1> QED BY <1>7, <1>8, <1>9

-----------------------------------------------------------------------------
(* How deep a scope is nested *)

Depth(p) == Cardinality(Owners(p))

LEMMA OwnersAre ==
  ASSUME WellFormed(ast), NEW p \in Path
  PROVE  /\ IsFiniteSet(Owners(p)) /\ Depth(p) \in Nat /\ Len(p) \in Nat
         /\ \A n : n \in Owners(p) <=> n \in 0 .. Len(p) - 1 /\ HasScope(Cut(p, n))
<1>1. Len(p) \in Nat
  BY LenProperties DEF Path
<1>2. Owners(p) \subseteq 0 .. Len(p) - 1
  BY DEF Owners
<1>3. IsFiniteSet(0 .. Len(p) - 1)
  BY <1>1, FS_Interval
<1>4. IsFiniteSet(Owners(p)) /\ Cardinality(Owners(p)) \in Nat
  BY <1>2, <1>3, FS_Subset, FS_CardinalityType
<1> QED BY <1>1, <1>4 DEF Owners, Cut, HasScope, Depth

\* The root is nested in nothing.
LEMMA RootDepth ==
  ASSUME WellFormed(ast)
  PROVE  Depth(<<>>) = 0
<1>1. <<>> \in Path /\ Len(<<>>) = 0
  BY NodesArePaths
<1>2. Owners(<<>>) = {}
  BY <1>1, OwnersAre
<1> QED BY <1>2, FS_EmptySet DEF Depth

\* A node is one deeper than the node around it that has a scope.
LEMMA DepthBelow ==
  ASSUME WellFormed(ast), NEW q \in DOMAIN ast, q # <<>>
  PROVE  Depth(q) = Depth(EnclosingScope(q)) + 1
<1> DEFINE e == EnclosingScope(q)
<1>1. /\ e \in DOMAIN ast /\ Above(e, q) /\ e # q /\ HasScope(e)
      /\ \A r \in DOMAIN ast : Above(r, q) /\ r # q /\ HasScope(r) => Above(r, e)
  BY EnclosingIs
<1>2. q \in Path /\ e \in Path
  BY <1>1, NodesArePaths
<1> HIDE DEF e
<1>3. /\ IsFiniteSet(Owners(e)) /\ Depth(e) \in Nat /\ Len(e) \in Nat /\ Len(q) \in Nat
      /\ \A n : n \in Owners(q) <=> n \in 0 .. Len(q) - 1 /\ HasScope(Cut(q, n))
      /\ \A n : n \in Owners(e) <=> n \in 0 .. Len(e) - 1 /\ HasScope(Cut(e, n))
  BY <1>2, OwnersAre
<1>4. Len(e) < Len(q) /\ e = Cut(q, Len(e))
  BY <1>1, <1>2, AboveOrder, CutAbove
<1>5. ASSUME NEW n \in Nat, n < Len(e) PROVE Cut(e, n) = Cut(q, n)
  <2>1. \A k \in 1 .. n : e[k] = q[k]
    BY <1>1, <1>3, <1>5 DEF Above
  <2> QED BY <1>2, <1>3, <1>4, <1>5, <2>1, CutsAgree
<1>6. ASSUME NEW n \in Nat, n \in Owners(q), Len(e) < n PROVE FALSE
  <2>1. n < Len(q) /\ n \in 0 .. Len(q) /\ HasScope(Cut(q, n))
    BY <1>3, <1>6
  <2> DEFINE r == Cut(q, n)
  <2>2. /\ r \in Path /\ Len(r) = n /\ \A k \in 1 .. n : r[k] = q[k]
    BY <1>2, <2>1, CutIs
  <2> HIDE DEF r
  <2>3. Above(r, q) /\ r # q
    BY <2>1, <2>2 DEF Above
  <2>4. r \in DOMAIN ast
    BY <1>2, <2>2, <2>3, AncestorsAreNodes
  <2>5. Above(r, e)
    BY <1>1, <2>1, <2>3, <2>4 DEF r
  <2> QED BY <1>3, <1>6, <2>2, <2>5 DEF Above
<1>7. \A n : n \in Owners(q) => n \in Nat
  BY <1>3
<1>8. ASSUME NEW n PROVE n \in Owners(q) <=> n \in Owners(e) \/ n = Len(e)
  <2>1. n = Len(e) => n \in Owners(q)
    BY <1>1, <1>3, <1>4
  <2>2. n \in Owners(e) => n \in Nat /\ n < Len(e)
    BY <1>3
  <2>3. n \in Owners(e) => n \in Owners(q)
    BY <1>3, <1>4, <1>5, <2>2
  <2>4. n \in Owners(q) /\ n # Len(e) => n \in Nat /\ n < Len(e)
    BY <1>3, <1>6, <1>7
  <2>5. n \in Owners(q) /\ n # Len(e) => n \in Owners(e)
    BY <1>3, <1>5, <2>4
  <2> QED BY <2>1, <2>3, <2>5
<1>9. Owners(q) = Owners(e) \cup {Len(e)} /\ Len(e) \notin Owners(e)
  BY <1>3, <1>8
<1>10. Cardinality(Owners(e) \cup {Len(e)}) = Cardinality(Owners(e)) + 1
  BY <1>3, <1>9, FS_AddElement
<1> QED BY <1>9, <1>10 DEF Depth, e

-----------------------------------------------------------------------------
(* The summary *)

\* What is known of the scopes when the analysis has begun.
LEMMA ScopesAre ==
  ASSUME Inv, OrderInv, status # "start"
  PROVE  /\ WellFormed(ast) /\ scopes \in Seq(ScopeSet) /\ Len(scopes) \in Nat
         /\ FollowsTree(scopes)
         /\ \A s, q \in 1 .. Len(scopes) : scopes[s].at = scopes[q].at => s = q
         /\ \A s, q \in 1 .. Len(scopes) : s < q => Precedes(scopes[s].at, scopes[q].at)
         /\ \A s \in 1 .. Len(scopes) :
              /\ scopes[s].at \in Path /\ scopes[s].at \in DOMAIN ast
              /\ HasScope(scopes[s].at) /\ scopes[s].parent \in 0 .. s - 1
              /\ scopes[s].parent = 0 <=> scopes[s].at = <<>>
<1>1. /\ WellFormed(ast) /\ scopes \in Seq(ScopeSet) /\ Len(scopes) \in Nat
      /\ FollowsTree(scopes)
      /\ \A s, q \in 1 .. Len(scopes) : scopes[s].at = scopes[q].at => s = q
      /\ \A s, q \in 1 .. Len(scopes) : s < q => Precedes(scopes[s].at, scopes[q].at)
  BY Trees, LenProperties DEF Inv, Structure, ScopesInv, OneForEach, OrderInv, SourceOrder
<1>2. ASSUME NEW s \in 1 .. Len(scopes)
      PROVE  /\ scopes[s].at \in Path /\ scopes[s].at \in DOMAIN ast
             /\ HasScope(scopes[s].at) /\ scopes[s].parent \in 0 .. s - 1
             /\ scopes[s].parent = 0 <=> scopes[s].at = <<>>
  <2>1. scopes[s].parent \in 0 .. s - 1
    BY <1>1, AroundScope
  <2> QED BY <1>1, <2>1, AtSequences DEF FollowsTree
<1> QED BY <1>1, <1>2

\* The line of a scope.
Line(s) == [indent |-> Depth(scopes[s].at), at |-> scopes[s].at,
            symbols |-> scopes[s].symbols]

Lines == {Line(s) : s \in 1 .. Len(scopes)}

\* What is still to be printed when the first k scopes have been: the scopes
\* behind them whose parent is one of them, and what is below those.
PrintsRest(calls, k) ==
  /\ calls \in Seq(PrintCalls)
  /\ \A i \in 1 .. Len(calls) :
       /\ calls[i].scope \in k + 1 .. Len(scopes) /\ scopes[calls[i].scope].parent <= k
       /\ calls[i].indent = Depth(scopes[calls[i].scope].at)
  /\ \A i, j \in 1 .. Len(calls) : i < j => calls[i].scope < calls[j].scope
  /\ \A c \in k + 1 .. Len(scopes) :
       scopes[c].parent <= k => \E i \in 1 .. Len(calls) : calls[i].scope = c

\* The scopes are printed in the order in which they were made.
SummaryHolds(lines, calls) ==
  /\ lines \in Seq(Lines) /\ Len(lines) <= Len(scopes)
  /\ \A n \in 1 .. Len(lines) : lines[n] = Line(n)
  /\ PrintsRest(calls, Len(lines))

SummaryInv ==
  /\ phase = "analysis" => summary = <<>>
  /\ phase = "summary" => SummaryHolds(summary, unprinted)

\* The next scope in the order of creation is the next one that is printed.
LEMMA NextPrinted ==
  ASSUME Inv, OrderInv, status # "start", NEW k \in Nat, k < Len(scopes),
         NEW calls, PrintsRest(calls, k)
  PROVE  calls # <<>> /\ calls[1].scope = k + 1 /\ scopes[k + 1].parent <= k
<1>1. k + 1 \in 1 .. Len(scopes) /\ k + 1 \in k + 1 .. Len(scopes) /\ Len(scopes) \in Nat
  BY ScopesAre
<1>2. scopes[k + 1].parent \in 0 .. k + 1 - 1
  BY <1>1, ScopesAre
<1>3. scopes[k + 1].parent <= k
  BY <1>2
<1>4. PICK i \in 1 .. Len(calls) : calls[i].scope = k + 1
  BY <1>1, <1>3 DEF PrintsRest
<1>5. calls \in Seq(PrintCalls) /\ Len(calls) \in Nat
  BY LenProperties DEF PrintsRest
<1>6. 1 \in 1 .. Len(calls) /\ i \in Nat
  BY <1>4, <1>5
<1>7. i = 1
  <2>1. SUFFICES ASSUME 1 < i PROVE FALSE
    BY <1>4, <1>6
  <2>2. calls[1].scope < calls[i].scope /\ calls[1].scope \in k + 1 .. Len(scopes)
    BY <1>6, <2>1 DEF PrintsRest
  <2> QED BY <1>1, <1>4, <2>2
<1> QED BY <1>3, <1>4, <1>6, <1>7

\* A scope that is to be printed later is not below the next one, and comes
\* behind everything that is.
LEMMA BelowComesFirst ==
  ASSUME Inv, OrderInv, status # "start", NEW k \in Nat,
         NEW c \in k + 2 .. Len(scopes), scopes[c].parent = k + 1,
         NEW t \in k + 2 .. Len(scopes), scopes[t].parent <= k
  PROVE  c < t
<1> DEFINE h == scopes[k + 1].at
           x == scopes[c].at
           y == scopes[t].at
           p == scopes[t].parent
<1>1. /\ WellFormed(ast) /\ scopes \in Seq(ScopeSet) /\ Len(scopes) \in Nat
      /\ FollowsTree(scopes)
      /\ \A s, q \in 1 .. Len(scopes) : scopes[s].at = scopes[q].at => s = q
  BY ScopesAre
<1>2. /\ k + 1 \in 1 .. Len(scopes) /\ c \in 1 .. Len(scopes) /\ t \in 1 .. Len(scopes)
      /\ k + 1 < c /\ k + 1 < t /\ c \in Nat /\ t \in Nat
  BY <1>1
<1>3. SUFFICES ASSUME t < c PROVE FALSE
  <2>1. t # c
    <3>1. ~(k + 1 <= k)
      OBVIOUS
    <3> QED BY <3>1
  <2> QED BY <1>2, <1>3, <2>1
<1>4. h \in Path /\ x \in Path /\ y \in Path /\ h \in DOMAIN ast /\ HasScope(h)
  BY <1>2, ScopesAre
<1>5. Precedes(h, y) /\ Precedes(y, x)
  BY <1>2, <1>3, ScopesAre
<1>6. Above(h, x)
  <2>1. scopes[c].parent # 0
    OBVIOUS
  <2> QED BY <1>1, <1>2, <2>1, AroundScope
<1>7. Above(h, y)
  <2>1. SUFFICES ASSUME ~Above(h, y) PROVE FALSE
    OBVIOUS
  <2>2. Precedes(x, y)
    BY <1>4, <1>5, <1>6, <2>1, BelowPrecedes
  <2> QED BY <1>4, <1>5, <2>2, PrecedesOrder
<1>8. h # y
  BY <1>1, <1>2
<1>9. p # 0 /\ Above(h, scopes[p].at)
  BY <1>1, <1>2, <1>4, <1>7, <1>8, AroundScope
<1>10. p \in 1 .. Len(scopes) /\ p < k + 1
  <2>1. p \in 0 .. t - 1
    BY <1>2, ScopesAre
  <2> QED BY <1>2, <1>9, <2>1
<1>11. scopes[p].at \in Path /\ Precedes(scopes[p].at, h)
  BY <1>2, <1>10, ScopesAre
<1> QED BY <1>4, <1>9, <1>11, PrecedesOrder

\* What the calls are when the next scope is printed.
LEMMA CallsAfter ==
  ASSUME Inv, OrderInv, status # "start", NEW k \in Nat, k < Len(scopes),
         NEW calls, PrintsRest(calls, k),
         NEW list, CallsBelow(list, k + 1, calls[1].indent + 1, Len(scopes))
  PROVE  PrintsRest(list \o Tail(calls), k + 1)
<1> DEFINE rest == Tail(calls)
           b == list \o rest
<1>1. calls # <<>> /\ calls[1].scope = k + 1 /\ scopes[k + 1].parent <= k
  BY NextPrinted
<1>2. calls \in Seq(PrintCalls) /\ list \in Seq(PrintCalls)
  BY DEF PrintsRest, CallsBelow
<1>3. /\ rest \in Seq(PrintCalls) /\ Len(rest) = Len(calls) - 1 /\ Len(calls) \in Nat \ {0}
      /\ \A i \in 1 .. Len(rest) : rest[i] = calls[i + 1]
  BY <1>1, <1>2, HeadTailProperties, EmptySeq, LenProperties
<1> HIDE DEF rest
<1>4. /\ b \in Seq(PrintCalls) /\ Len(b) = Len(list) + Len(rest)
      /\ Len(list) \in Nat /\ Len(rest) \in Nat
      /\ \A i \in 1 .. Len(list) : b[i] = list[i]
      /\ \A i \in 1 .. Len(rest) : b[Len(list) + i] = rest[i]
  <2>1. Len(list) \in Nat /\ Len(rest) \in Nat
    BY <1>2, <1>3, LenProperties
  <2>2. /\ b \in Seq(PrintCalls) /\ Len(b) = Len(list) + Len(rest)
        /\ \A i \in 1 .. Len(list) + Len(rest) :
             b[i] = IF i <= Len(list) THEN list[i] ELSE rest[i - Len(list)]
    BY <1>2, <1>3, ConcatProperties
  <2> HIDE DEF b
  <2>3. \A i \in 1 .. Len(list) : b[i] = list[i]
    BY <2>1, <2>2
  <2>4. ASSUME NEW i \in 1 .. Len(rest) PROVE b[Len(list) + i] = rest[i]
    <3>1. /\ Len(list) + i \in 1 .. Len(list) + Len(rest) /\ ~(Len(list) + i <= Len(list))
          /\ Len(list) + i - Len(list) = i
      BY <2>1
    <3> QED BY <2>2, <3>1
  <2> QED BY <2>1, <2>2, <2>3, <2>4
<1> HIDE DEF b
<1>5. \A i \in 1 .. Len(b) :
        \/ i \in 1 .. Len(list) /\ b[i] = list[i]
        \/ i - Len(list) \in 1 .. Len(rest) /\ b[i] = rest[i - Len(list)]
  <2> SUFFICES ASSUME NEW i \in 1 .. Len(b), i \notin 1 .. Len(list)
      PROVE  i - Len(list) \in 1 .. Len(rest) /\ b[i] = rest[i - Len(list)]
    BY <1>4
  <2> DEFINE j == i - Len(list)
  <2>1. j \in 1 .. Len(rest) /\ i = Len(list) + j
    BY <1>4
  <2> QED BY <1>4, <2>1
<1>6. /\ Len(scopes) \in Nat
      /\ \A s \in 1 .. Len(scopes) :
           scopes[s].parent \in 0 .. s - 1 /\ scopes[s].at \in DOMAIN ast
           /\ (scopes[s].parent = 0 <=> scopes[s].at = <<>>)
  BY ScopesAre
<1>7. ASSUME NEW i \in 1 .. Len(list)
      PROVE  LET c == list[i].scope IN
             /\ c \in k + 2 .. Len(scopes) /\ scopes[c].parent = k + 1
             /\ list[i].indent = Depth(scopes[c].at)
  <2> DEFINE c == list[i].scope
  <2>1. c \in 1 .. Len(scopes) /\ scopes[c].parent = k + 1
        /\ list[i].indent = calls[1].indent + 1
    BY DEF CallsBelow
  <2>2. scopes[c].parent \in 0 .. c - 1
    BY <1>6, <2>1
  <2>3. c \in k + 2 .. Len(scopes)
    BY <1>6, <2>1, <2>2
  <2>4. 1 \in 1 .. Len(calls)
    BY <1>3
  <2>5. calls[1].indent = Depth(scopes[k + 1].at)
    BY <1>1, <2>4 DEF PrintsRest
  <2>6. Depth(scopes[c].at) = Depth(scopes[k + 1].at) + 1
    <3>1. scopes[c].at # <<>> /\ scopes[c].at \in DOMAIN ast
      BY <1>6, <2>1
    <3>2. scopes[k + 1].at = EnclosingScope(scopes[c].at)
      BY <2>1, <3>1, ScopesAre DEF FollowsTree
    <3> QED BY <3>1, <3>2, ScopesAre, DepthBelow
  <2> HIDE DEF c
  <2> QED BY <2>1, <2>3, <2>5, <2>6 DEF c
<1>8. ASSUME NEW i \in 1 .. Len(rest)
      PROVE  LET c == rest[i].scope IN
             /\ c \in k + 2 .. Len(scopes) /\ scopes[c].parent <= k
             /\ rest[i].indent = Depth(scopes[c].at)
  <2> DEFINE j == i + 1
  <2>1. rest[i] = calls[j] /\ j \in 1 .. Len(calls) /\ 1 \in 1 .. Len(calls) /\ 1 < j
    BY <1>3
  <2> HIDE DEF j
  <2>2. /\ calls[j].scope \in k + 1 .. Len(scopes) /\ scopes[calls[j].scope].parent <= k
        /\ calls[j].indent = Depth(scopes[calls[j].scope].at)
        /\ calls[1].scope < calls[j].scope
    BY <2>1 DEF PrintsRest
  <2>3. calls[j].scope \in k + 2 .. Len(scopes)
    BY <1>1, <1>6, <2>2
  <2> QED BY <2>1, <2>2, <2>3
<1>9. ASSUME NEW i \in 1 .. Len(b)
      PROVE  /\ b[i].scope \in k + 1 + 1 .. Len(scopes) /\ scopes[b[i].scope].parent <= k + 1
             /\ b[i].indent = Depth(scopes[b[i].scope].at)
  <2>1. k + 1 + 1 = k + 2
    OBVIOUS
  <2>2. CASE i \in 1 .. Len(list) /\ b[i] = list[i]
    BY <1>7, <2>1, <2>2
  <2>3. CASE i - Len(list) \in 1 .. Len(rest) /\ b[i] = rest[i - Len(list)]
    <3> DEFINE j == i - Len(list)
    <3>1. j \in 1 .. Len(rest) /\ b[i] = rest[j]
      BY <2>3
    <3> HIDE DEF j
    <3>2. /\ b[i].scope \in k + 2 .. Len(scopes) /\ scopes[b[i].scope].parent <= k
          /\ b[i].indent = Depth(scopes[b[i].scope].at)
      BY <1>8, <3>1
    <3>3. scopes[b[i].scope].parent \in Int
      <4>1. b[i].scope \in 1 .. Len(scopes)
        BY <1>6, <3>2
      <4>2. scopes[b[i].scope].parent \in 0 .. b[i].scope - 1
        BY <1>6, <4>1
      <4> QED BY <4>2
    <3>4. scopes[b[i].scope].parent <= k + 1
      BY <3>2, <3>3
    <3> QED BY <2>1, <3>2, <3>4
  <2> QED BY <1>5, <2>2, <2>3
<1>10. ASSUME NEW i \in 1 .. Len(b), NEW j \in 1 .. Len(b), i < j
       PROVE  b[i].scope < b[j].scope
  <2>1. CASE i \in 1 .. Len(list) /\ j \in 1 .. Len(list)
    <3>1. list[i].scope < list[j].scope
      BY <1>10, <2>1 DEF CallsBelow
    <3> QED BY <1>4, <2>1, <3>1
  <2>2. CASE i \in 1 .. Len(list) /\ j \notin 1 .. Len(list)
    <3>1. j - Len(list) \in 1 .. Len(rest) /\ b[j] = rest[j - Len(list)] /\ b[i] = list[i]
      BY <1>4, <1>5, <2>2
    <3>2. /\ b[i].scope \in k + 2 .. Len(scopes) /\ scopes[b[i].scope].parent = k + 1
      BY <1>7, <2>2, <3>1
    <3>3. /\ b[j].scope \in k + 2 .. Len(scopes) /\ scopes[b[j].scope].parent <= k
      BY <1>8, <3>1
    <3> QED BY <3>2, <3>3, BelowComesFirst
  <2>3. CASE i \notin 1 .. Len(list)
    <3> DEFINE m == i - Len(list)
               n == j - Len(list)
    <3>1. j \notin 1 .. Len(list) /\ i \in Int /\ j \in Int
      BY <1>4, <1>10, <2>3
    <3>2. m \in 1 .. Len(rest) /\ b[i] = rest[m] /\ n \in 1 .. Len(rest) /\ b[j] = rest[n]
      BY <1>5, <2>3, <3>1
    <3>3. m < n /\ m + 1 \in 1 .. Len(calls) /\ n + 1 \in 1 .. Len(calls) /\ m + 1 < n + 1
      BY <1>3, <1>4, <1>10, <3>1, <3>2
    <3> HIDE DEF m, n
    <3>4. calls[m + 1].scope < calls[n + 1].scope
      BY <3>3 DEF PrintsRest
    <3> QED BY <1>3, <3>2, <3>4
  <2> QED BY <2>1, <2>2, <2>3
<1>11. ASSUME NEW c \in k + 1 + 1 .. Len(scopes), scopes[c].parent <= k + 1
       PROVE  \E i \in 1 .. Len(b) : b[i].scope = c
  <2>1. c \in 1 .. Len(scopes) /\ c \in k + 1 .. Len(scopes) /\ c # k + 1
    BY <1>6
  <2>2. scopes[c].parent \in 0 .. c - 1
    BY <1>6, <2>1
  <2>3. CASE scopes[c].parent = k + 1
    <3>1. PICK i \in 1 .. Len(list) : list[i].scope = c
      BY <2>1, <2>3 DEF CallsBelow
    <3>2. i \in 1 .. Len(b)
      BY <1>4
    <3> QED BY <1>4, <3>1, <3>2
  <2>4. CASE scopes[c].parent # k + 1
    <3>1. scopes[c].parent <= k
      BY <1>11, <2>2, <2>4
    <3>2. PICK i \in 1 .. Len(calls) : calls[i].scope = c
      BY <2>1, <3>1 DEF PrintsRest
    <3>3. i # 1
      BY <1>1, <2>1, <3>2
    <3> DEFINE j == i - 1
    <3>4. j \in 1 .. Len(rest) /\ i = j + 1
      BY <1>3, <3>3
    <3>5. rest[j] = calls[i]
      BY <1>3, <3>4
    <3> HIDE DEF j
    <3>6. Len(list) + j \in 1 .. Len(b) /\ b[Len(list) + j] = rest[j]
      BY <1>4, <3>4
    <3> QED BY <3>2, <3>5, <3>6
  <2> QED BY <2>3, <2>4
<1> QED BY <1>4, <1>9, <1>10, <1>11 DEF PrintsRest, b, rest

LEMMA SameSummary ==
  ASSUME UNCHANGED vars, SummaryHolds(summary', unprinted')
  PROVE  SummaryHolds(summary, unprinted)'
<1>1. ast' = ast /\ scopes' = scopes
  BY DEF vars
<1>2. \A p : Depth(p)' = Depth(p)
  BY <1>1 DEF Depth, Owners
<1>3. (\A s : Line(s)' = Line(s)) /\ Lines' = Lines
  BY <1>1, <1>2 DEF Line, Lines
<1>4. PrintsRest(unprinted, Len(summary))' <=> PrintsRest(unprinted', Len(summary'))
  BY <1>1, <1>2 DEF PrintsRest, PrintCalls
<1> QED BY <1>1, <1>3, <1>4 DEF SummaryHolds

\* The call for the scope of the program.
LEMMA SummaryStarts ==
  ASSUME Inv, DeclaredInv, LeftInv, OrderInv, SummaryInv, StartSummary
  PROVE  SummaryInv'
<1> DEFINE call  == [scope |-> 1, indent |-> 0]
           calls == <<call>>
<1>1. /\ UNCHANGED vars /\ summary' = <<>> /\ unprinted' = calls
      /\ status = "done" /\ phase' = "summary" /\ agenda = <<>>
  BY DEF StartSummary, Analyzed, SummaryInv, DeclaredInv
<1>2. call \in PrintCalls /\ call.scope = 1 /\ call.indent = 0
  BY DEF PrintCalls
<1> HIDE DEF call
<1>3. calls \in Seq(PrintCalls) /\ Len(calls) = 1 /\ calls[1] = call
  BY <1>2
<1> HIDE DEF calls
<1>4. /\ WellFormed(ast) /\ Len(scopes) \in Nat
      /\ \A s, q \in 1 .. Len(scopes) : scopes[s].at = scopes[q].at => s = q
      /\ \A s \in 1 .. Len(scopes) : /\ scopes[s].parent \in 0 .. s - 1
                                     /\ scopes[s].parent = 0 <=> scopes[s].at = <<>>
  BY <1>1, ScopesAre
<1>5. \E s \in 1 .. Len(scopes) : scopes[s].at = <<>>
  <2>1. <<>> \in DOMAIN ast /\ HasScope(<<>>)
    BY <1>4, NodesArePaths DEF HasScope, ScopeKinds
  <2>2. Own(scopes, agenda) /\ ~Awaited(agenda, <<>>)
    BY <1>1, NoneAwaited DEF LeftInv
  <2> QED BY <2>1, <2>2 DEF Own
<1>6. 1 \in 1 .. Len(scopes)
  BY <1>4, <1>5
<1>7. scopes[1].parent = 0 /\ scopes[1].at = <<>>
  <2>1. scopes[1].parent \in 0 .. 1 - 1
    BY <1>4, <1>6
  <2> QED BY <1>4, <1>6, <2>1
<1>8. PrintsRest(calls, 0)
  <2>1. \A i \in 1 .. Len(calls) : i = 1
    BY <1>3
  <2>2. ASSUME NEW i \in 1 .. Len(calls)
        PROVE  /\ calls[i].scope \in 0 + 1 .. Len(scopes)
               /\ scopes[calls[i].scope].parent <= 0
               /\ calls[i].indent = Depth(scopes[calls[i].scope].at)
    <3>1. calls[i].scope = 1 /\ calls[i].indent = 0
      BY <1>2, <1>3, <2>1
    <3>2. Depth(<<>>) = 0
      BY <1>4, RootDepth
    <3>3. 1 \in 0 + 1 .. Len(scopes)
      BY <1>6
    <3> QED BY <1>7, <3>1, <3>2, <3>3
  <2>3. \A i, j \in 1 .. Len(calls) : ~(i < j)
    BY <2>1
  <2>4. ASSUME NEW c \in 0 + 1 .. Len(scopes), scopes[c].parent <= 0
        PROVE  \E i \in 1 .. Len(calls) : calls[i].scope = c
    <3>1. c \in 1 .. Len(scopes)
      BY <1>4
    <3>2. scopes[c].parent \in 0 .. c - 1
      BY <1>4, <3>1
    <3>3. scopes[c].parent = 0
      BY <2>4, <3>2
    <3>4. c = 1
      BY <1>4, <1>6, <1>7, <3>1, <3>3
    <3> QED BY <1>2, <1>3, <3>4
  <2> QED BY <1>3, <2>2, <2>3, <2>4 DEF PrintsRest
<1>9. SummaryHolds(<<>>, calls)
  <2>1. <<>> \in Seq(Lines) /\ Len(<<>>) = 0 /\ 0 <= Len(scopes)
    BY <1>4
  <2>2. PrintsRest(calls, Len(<<>>))
    BY <1>8, <2>1
  <2> QED BY <2>1, <2>2 DEF SummaryHolds
<1>10. SummaryHolds(summary, unprinted)'
  BY <1>1, <1>9, SameSummary
<1> QED BY <1>1, <1>10 DEF SummaryInv

\* A scope is printed.
LEMMA SummaryPrints ==
  ASSUME Inv, OrderInv, IndexInv, SummaryInv, PrintScope
  PROVE  SummaryInv'
<1> DEFINE k    == Len(summary)
           head == unprinted[1]
           list == Children(k + 1, head.indent + 1)
<1>1. /\ UNCHANGED vars /\ phase = "summary" /\ phase' = "summary" /\ unprinted # <<>>
      /\ status = "done" /\ SummaryHolds(summary, unprinted)
  BY DEF PrintScope, SummaryInv, IndexInv
<1>2. /\ summary \in Seq(Lines) /\ k \in Nat /\ k <= Len(scopes)
      /\ \A n \in 1 .. k : summary[n] = Line(n)
      /\ PrintsRest(unprinted, k) /\ unprinted \in Seq(PrintCalls)
  BY <1>1, LenProperties DEF SummaryHolds, PrintsRest
<1>3. /\ Len(unprinted) \in Nat \ {0} /\ 1 \in 1 .. Len(unprinted)
      /\ Head(unprinted) = head /\ head \in PrintCalls
  <2>1. Len(unprinted) \in Nat \ {0}
    BY <1>1, <1>2, EmptySeq
  <2> QED BY <1>2, <2>1, ElementOfSeq
<1>4. Len(scopes) \in Nat
  BY <1>1, ScopesAre
<1>5. k < Len(scopes)
  <2>1. head.scope \in k + 1 .. Len(scopes)
    BY <1>2, <1>3 DEF PrintsRest
  <2> QED BY <1>2, <1>4, <2>1
<1>6. head.scope = k + 1 /\ head.indent = Depth(scopes[k + 1].at) /\ head.indent \in Nat
  <2>1. head.scope = k + 1
    BY <1>1, <1>2, <1>5, NextPrinted
  <2> QED BY <1>2, <1>3, <2>1 DEF PrintsRest, PrintCalls
<1>7. summary' = Append(summary, Line(k + 1)) /\ unprinted' = list \o Tail(unprinted)
  BY <1>3, <1>6 DEF PrintScope, Line
<1>8. PrintsRest(unprinted', k + 1)
  <2>1. CallsBelow(list, k + 1, head.indent + 1, Len(scopes))
    BY <1>2, <1>4, <1>6, ChildrenAre
  <2> HIDE DEF list, k
  <2> QED BY <1>1, <1>2, <1>5, <1>7, <2>1, CallsAfter
<1>9. /\ summary' \in Seq(Lines) /\ Len(summary') = k + 1
      /\ \A n \in 1 .. k + 1 : summary'[n] = Line(n)
  <2>1. k + 1 \in 1 .. Len(scopes)
    BY <1>2, <1>4, <1>5
  <2>2. Line(k + 1) \in Lines
    BY <2>1 DEF Lines
  <2> DEFINE new == Line(k + 1)
  <2>3. new \in Lines /\ summary' = Append(summary, new)
    BY <1>7, <2>2
  <2> HIDE DEF new
  <2>4. /\ Append(summary, new) \in Seq(Lines) /\ Len(Append(summary, new)) = k + 1
        /\ \A n \in 1 .. k : Append(summary, new)[n] = summary[n]
        /\ Append(summary, new)[k + 1] = new
    BY <1>2, <2>3, AppendProperties
  <2>5. \A n \in 1 .. k + 1 : n \in 1 .. k \/ n = k + 1
    BY <1>2
  <2> HIDE DEF k
  <2>6. \A n \in 1 .. k + 1 : summary'[n] = Line(n)
    BY <1>2, <2>3, <2>4, <2>5 DEF new
  <2> QED BY <2>3, <2>4, <2>6
<1>10. SummaryHolds(summary', unprinted')
  <2>1. k + 1 <= Len(scopes)
    BY <1>2, <1>4, <1>5
  <2> HIDE DEF k
  <2> QED BY <1>8, <1>9, <2>1 DEF SummaryHolds
<1>11. SummaryHolds(summary, unprinted)'
  BY <1>1, <1>10, SameSummary
<1> QED BY <1>1, <1>11 DEF SummaryInv

LEMMA SummaryInit ==
  ASSUME IndexInit PROVE SummaryInv
BY DEF IndexInit, SummaryInv

LEMMA SummaryNext ==
  ASSUME Inv, DeclaredInv, LeftInv, OrderInv, IndexInv, SummaryInv,
         [IndexNext]_<<vars, indexVars>>
  PROVE  SummaryInv'
<1>1. CASE Analysis
  BY <1>1 DEF Analysis, indexVars, SummaryInv
<1>2. CASE StartSummary
  BY <1>2, SummaryStarts
<1>3. CASE PrintScope
  BY <1>3, SummaryPrints
<1>4. CASE StartIndex \/ IndexFunction \/ IndexDeclaration \/ Walk \/ PrintSymbols
  <2>1. phase' \in {"indexing", "printed"}
    BY <1>4 DEF StartIndex, IndexFunction, IndexDeclaration, Walk, PrintSymbols, Indexes
  <2> QED BY <2>1 DEF SummaryInv
<1>5. CASE Printed \/ UNCHANGED <<vars, indexVars>>
  <2>1. /\ UNCHANGED vars /\ phase' = phase /\ summary' = summary /\ unprinted' = unprinted
    BY <1>5 DEF Printed, indexVars
  <2>2. phase = "summary" => SummaryHolds(summary, unprinted)'
    BY <2>1, SameSummary DEF SummaryInv
  <2> QED BY <2>1, <2>2 DEF SummaryInv
<1> QED BY <1>1, <1>2, <1>3, <1>4, <1>5 DEF IndexNext

-----------------------------------------------------------------------------
(* The program, the index and the summary together *)

LEMMA LeftInit ==
  ASSUME Init PROVE LeftInv
BY DEF Init, LeftInv

\* All that is known of a step of the analysis, of the summary and of the index.
LEMMA IndexInvariants ==
  IndexSpec => [](Inv /\ DeclaredInv /\ LeftInv /\ OrderInv /\ IndexInv /\ SummaryInv)
<1>1. IndexInit => Inv /\ DeclaredInv /\ LeftInv /\ OrderInv /\ IndexInv /\ SummaryInv
  BY InvInit, DeclaredInit, LeftInit, OrderInit, IndexInvInit, SummaryInit DEF IndexInit
<1>2. Inv /\ DeclaredInv /\ LeftInv /\ OrderInv /\ IndexInv /\ SummaryInv
        /\ [IndexNext]_<<vars, indexVars>>
        => Inv' /\ DeclaredInv' /\ LeftInv' /\ OrderInv' /\ IndexInv' /\ SummaryInv'
  <2> SUFFICES ASSUME Inv, DeclaredInv, LeftInv, OrderInv, IndexInv, SummaryInv,
                      [IndexNext]_<<vars, indexVars>>
      PROVE  Inv' /\ DeclaredInv' /\ LeftInv' /\ OrderInv' /\ IndexInv' /\ SummaryInv'
    OBVIOUS
  <2>1. [Next]_vars
    BY IndexStep
  <2>2. Inv' /\ DeclaredInv' /\ LeftInv' /\ OrderInv'
    BY <2>1, InvNext, DeclaredNext, LeftNext, OrderNext
  <2>3. IndexInv' /\ SummaryInv'
    BY IndexInvNext, SummaryNext
  <2> QED BY <2>2, <2>3
<1> QED BY <1>1, <1>2, PTL DEF IndexSpec

\* What the index holds when it is printed.
LEMMA PrintedIndex ==
  ASSUME IndexInv, phase = "printed"
  PROVE  /\ status = "done" /\ reports = {}
         /\ DOMAIN symbols = {ast[d].name : d \in Recorded}
         /\ \A name \in DOMAIN symbols : \E d \in Recorded :
              /\ ast[d].name = name /\ symbols[name] = Entry(d)
              /\ \A e \in Recorded \ {d} : ast[e].name = name => Precedes(e, d)
<1>1. status = "done" /\ reports = {} /\ IndexHolds(symbols, pending) /\ pending = <<>>
  BY DEF IndexInv
<1>2. Seen(<<>>) = Recorded
  BY NoneAwaited DEF Seen
<1> QED BY <1>1, <1>2 DEF IndexHolds, IsLatest

\* There is one entry for a name, the last declaration in the source: addSymbol
\* overwrites, and indexAST walks in the order of the source.
THEOREM IndexedLast == IndexSpec => []LastDeclarationIsIndexed
<1>1. Inv /\ DeclaredInv /\ LeftInv /\ IndexInv => LastDeclarationIsIndexed
  <2> SUFFICES ASSUME Inv, DeclaredInv, LeftInv, IndexInv, phase = "printed",
                      NEW name \in DOMAIN symbols
      PROVE  \E d \in Recorded :
               /\ ast[d].name = name
               /\ symbols[name] = [kind |-> Declared(d).kind, definition |-> Declared(d).type]
               /\ \A e \in Recorded \ {d} : ast[e].name = name => Precedes(e, d)
    BY DEF LastDeclarationIsIndexed
  <2>1. PICK d \in Recorded :
          /\ ast[d].name = name /\ symbols[name] = Entry(d)
          /\ \A e \in Recorded \ {d} : ast[e].name = name => Precedes(e, d)
    BY PrintedIndex
  <2>2. Declared(d).type = ast[d].type
    BY PrintedIndex, AcceptedLeaves
  <2> QED BY <2>1, <2>2 DEF Entry
<1> QED BY <1>1, IndexInvariants, PTL

\* The index and the scopes agree: what is written is what the analyzer has
\* resolved, in every program that it accepts.
THEOREM TablesAgree == IndexSpec => []IndexAgreesWithScopes
<1>1. Inv /\ DeclaredInv /\ LeftInv /\ IndexInv => IndexAgreesWithScopes
  <2> SUFFICES ASSUME Inv, DeclaredInv, LeftInv, IndexInv, phase = "printed"
      PROVE  /\ DOMAIN symbols = {ast[d].name : d \in Recorded}
             /\ \A name \in DOMAIN symbols : \E s \in DOMAIN scopes :
                  Symbol(name, symbols[name].kind, symbols[name].definition)
                    \in scopes[s].symbols
    BY DEF IndexAgreesWithScopes
  <2>1. ASSUME NEW name \in DOMAIN symbols
        PROVE  \E s \in DOMAIN scopes :
                 Symbol(name, symbols[name].kind, symbols[name].definition)
                   \in scopes[s].symbols
    <3>1. PICK d \in Recorded : ast[d].name = name /\ symbols[name] = Entry(d)
      BY PrintedIndex
    <3>2. \E s \in DOMAIN scopes :
            Symbol(ast[d].name, Declared(d).kind, ast[d].type) \in scopes[s].symbols
      BY PrintedIndex, AcceptedLeaves
    <3>3. symbols[name].kind = Declared(d).kind /\ symbols[name].definition = ast[d].type
      BY <3>1 DEF Entry
    <3> QED BY <3>1, <3>2, <3>3
  <2> QED BY <2>1, PrintedIndex
<1> QED BY <1>1, IndexInvariants, PTL

\* What the summary is when all of it has been printed.
LEMMA PrintedSummary ==
  ASSUME Inv, OrderInv, IndexInv, SummaryInv, Summarized
  PROVE  /\ status = "done" /\ summary \in Seq(Lines) /\ Len(summary) = Len(scopes)
         /\ \A n \in 1 .. Len(scopes) : summary[n] = Line(n)
<1>1. /\ status = "done" /\ summary \in Seq(Lines) /\ Len(summary) <= Len(scopes)
      /\ \A n \in 1 .. Len(summary) : summary[n] = Line(n)
      /\ PrintsRest(unprinted, Len(summary)) /\ unprinted = <<>>
  BY DEF Summarized, IndexInv, SummaryInv, SummaryHolds
<1>2. Len(summary) \in Nat /\ Len(scopes) \in Nat
  BY <1>1, LenProperties, ScopesAre
<1>3. ~(Len(summary) < Len(scopes))
  BY <1>1, <1>2, NextPrinted
<1> QED BY <1>1, <1>2, <1>3

\* The summary lists the scopes of every accepted program as its source has
\* them: in its order, as deep as they are nested, with the names declared in
\* each, although printSemanticSummary follows the parents and pushScope the walk.
THEOREM SummaryIsRight == IndexSpec => []SummaryFollowsTheSource
<1>1. Inv /\ DeclaredInv /\ LeftInv /\ OrderInv /\ IndexInv /\ SummaryInv
        => SummaryFollowsTheSource
  <2> SUFFICES ASSUME Inv, DeclaredInv, LeftInv, OrderInv, IndexInv, SummaryInv, Summarized
      PROVE  /\ {summary[n].at : n \in DOMAIN summary}
                  = {p \in DOMAIN ast : ast[p].kind \in ScopeKinds}
             /\ \A n \in DOMAIN summary :
                  /\ n > 1 => Precedes(summary[n - 1].at, summary[n].at)
                  /\ summary[n].indent = Cardinality(Owners(summary[n].at))
                  /\ {s.name : s \in summary[n].symbols}
                       = {ast[d].name :
                            d \in {e \in Declarers : EnclosingScope(e) = summary[n].at}}
    BY DEF SummaryFollowsTheSource
  <2>1. /\ status = "done" /\ DOMAIN summary = 1 .. Len(scopes) /\ agenda = <<>>
        /\ \A n \in 1 .. Len(scopes) :
             /\ summary[n].at = scopes[n].at /\ summary[n].symbols = scopes[n].symbols
             /\ summary[n].indent = Depth(scopes[n].at)
    <3>1. /\ status = "done" /\ summary \in Seq(Lines) /\ Len(summary) = Len(scopes)
          /\ \A n \in 1 .. Len(scopes) : summary[n] = Line(n)
      BY PrintedSummary
    <3>2. DOMAIN summary = 1 .. Len(scopes)
      BY <3>1, LenProperties
    <3>3. ASSUME NEW n \in 1 .. Len(scopes)
          PROVE  /\ summary[n].at = scopes[n].at /\ summary[n].symbols = scopes[n].symbols
                 /\ summary[n].indent = Depth(scopes[n].at)
      <4>1. summary[n] = Line(n)
        BY <3>1
      <4> QED BY <4>1 DEF Line
    <3> QED BY <3>1, <3>2, <3>3 DEF DeclaredInv
  <2>2. /\ Len(scopes) \in Nat
        /\ \A s, q \in 1 .. Len(scopes) : s < q => Precedes(scopes[s].at, scopes[q].at)
        /\ \A s \in 1 .. Len(scopes) : scopes[s].at \in DOMAIN ast /\ HasScope(scopes[s].at)
    BY <2>1, ScopesAre
  <2>3. {summary[n].at : n \in DOMAIN summary} = {p \in DOMAIN ast : ast[p].kind \in ScopeKinds}
    <3>1. ASSUME NEW p \in DOMAIN ast, HasScope(p)
          PROVE  \E n \in 1 .. Len(scopes) : scopes[n].at = p
      BY <2>1, <3>1, NoneAwaited DEF LeftInv, Own
    <3> QED BY <2>1, <2>2, <3>1 DEF HasScope
  <2>4. ASSUME NEW n \in 1 .. Len(scopes)
        PROVE  /\ n > 1 => Precedes(summary[n - 1].at, summary[n].at)
               /\ summary[n].indent = Cardinality(Owners(summary[n].at))
    <3>1. ASSUME n > 1 PROVE Precedes(summary[n - 1].at, summary[n].at)
      <4>1. n - 1 \in 1 .. Len(scopes) /\ n - 1 < n
        BY <2>2, <3>1
      <4> QED BY <2>1, <2>2, <4>1
    <3> QED BY <2>1, <3>1 DEF Depth
  <2>5. ASSUME NEW n \in 1 .. Len(scopes)
        PROVE  {s.name : s \in summary[n].symbols}
                 = {ast[d].name : d \in {e \in Declarers : EnclosingScope(e) = summary[n].at}}
    <3>1. HasFirst(scopes[n], agenda)
      BY <2>1 DEF Inv, Structure, ScopesInv
    <3>2. WellFormed(ast) /\ \A x : ~Awaited(agenda, x)
      BY <2>1, NoneAwaited, Trees
    <3>3. ASSUME NEW y \in scopes[n].symbols
          PROVE  \E d \in Declarers : EnclosingScope(d) = scopes[n].at /\ y.name = ast[d].name
      <4>1. PICK d \in Declarers : EnclosingScope(d) = scopes[n].at /\ y = SymbolOf(d)
        BY <3>1 DEF HasFirst
      <4> QED BY <3>2, <4>1, SymbolIs
    <3>4. ASSUME NEW d \in Declarers, EnclosingScope(d) = scopes[n].at
          PROVE  \E y \in scopes[n].symbols : y.name = ast[d].name
      BY <3>1, <3>2, <3>4 DEF HasFirst
    <3> QED BY <2>1, <3>3, <3>4
  <2> QED BY <2>1, <2>3, <2>4, <2>5
<1> QED BY <1>1, IndexInvariants, PTL

=============================================================================
