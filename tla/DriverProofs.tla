----------------------------- MODULE DriverProofs -----------------------------
(***************************************************************************)
(* Theorems about Driver, for every command line, whatever the manifests   *)
(* say and whatever the environment answers.                               *)
(***************************************************************************)
EXTENDS Driver, Numbers, SequenceTheorems

-----------------------------------------------------------------------------
(* How far a run has come *)

\* The phases behind a run that has come to a place by itself.
Behind(place) ==
  CASE place = "grammar"     -> {"source"}
    [] place = "translation" -> {"source", "grammar"}
    [] place = "stdlib"      -> {"source", "grammar", "translation"}
    [] place \in {"lex", "parse"} ->
         {"source", "grammar", "translation", "stdlib"}
    [] place = "analyze"     ->
         {"source", "grammar", "translation", "stdlib", "parse"}
    [] place \in {"generate", "write"} -> Phases
    [] OTHER                 -> {}

\* What a compilation that reports success has done.
Compiled ==
  /\ Phases \subseteq passed
  /\ used.language # Empty => "generate" \in passed

Earned ==
  \/ mode \in {"inform", "selftest"}
  \/ mode = "lex-samples" /\ Sample \subseteq passed
  \/ Compiled

\* The self-test starts at the third phase, so it is left out.
Progress ==
  /\ mode # "selftest" => Behind(pc) \subseteq passed
  /\ pc = "write" => "generate" \in passed
  /\ pc \in {"return", "ended"} /\ exit = 0 => Earned

\* The file that --output names changes in the last step that can fail.
OutputIsLast == output # "old" => pc \in {"return", "ended"} /\ exit = 0

\* The temporary file is there from the start of a compilation to its end.
TemporaryIsUsed ==
  /\ pc \in {"arguments", "start"} => ~temp
  /\ pc = "ended" /\ temp => exit = Crash

DriverInv == Progress /\ OutputIsLast /\ TemporaryIsUsed

-----------------------------------------------------------------------------
(* One step per action *)

LEMMA ArgumentsKeep ==
  ASSUME DriverInv, ReadsArguments \/ Dispatch
  PROVE  DriverInv'
<1>1. CASE ReadsArguments
  BY <1>1 DEF ReadsArguments, driverVars, DriverInv, Progress, OutputIsLast,
              TemporaryIsUsed, Behind, Earned, Compiled
<1>2. CASE Dispatch
  <2>1. /\ pc = "arguments" /\ pc' = "start"
        /\ passed' = passed /\ temp' = temp /\ output' = output
    BY <1>2 DEF Dispatch
  <2>2. Progress'
    BY <2>1 DEF Progress, Behind
  <2>3. OutputIsLast' /\ TemporaryIsUsed'
    BY <2>1 DEF DriverInv, OutputIsLast, TemporaryIsUsed
  <2> QED BY <2>2, <2>3 DEF DriverInv
<1> QED BY <1>1, <1>2

\* The modes that end at once: temp is still false, so nothing is left behind.
LEMMA ModesKeep ==
  ASSUME DriverInv, Inform \/ Refuse \/ LexSamples \/ DemoMissing
  PROVE  DriverInv'
<1>1. /\ pc = "start" /\ pc' = "ended" /\ temp' = temp /\ output' = output
      /\ mode' = mode
  BY DEF Inform, Refuse, LexSamples, DemoMissing, In, Exit
<1>2. exit' = 0 => Earned'
  BY <1>1 DEF Inform, Refuse, LexSamples, DemoMissing, In, Exit, Earned
<1>3. Progress'
  BY <1>1, <1>2 DEF Progress, Behind
<1>4. OutputIsLast' /\ TemporaryIsUsed'
  BY <1>1 DEF DriverInv, OutputIsLast, TemporaryIsUsed
<1> QED BY <1>3, <1>4 DEF DriverInv

\* The modes that compile something.
LEMMA CompileWithStarts ==
  ASSUME NEW source, NEW grammar, NEW translation, NEW language, NEW file,
         CompileWith(source, grammar, translation, language, file)
  PROVE  pc' = "source" /\ output' = output /\ mode' = mode
BY DEF CompileWith

LEMMA CompilationsKeep ==
  ASSUME DriverInv, Demo \/ Stdin \/ Run \/ Compile \/ SelfTest
  PROVE  DriverInv'
<1>1. /\ pc = "start" /\ output' = output /\ mode' = mode
      /\ pc' = "source" \/ (pc' = "stdlib" /\ mode = "selftest")
  <2>1. CASE Demo
    BY <2>1, CompileWithStarts DEF Demo, In
  <2>2. CASE Stdin
    BY <2>2, CompileWithStarts DEF Stdin, In
  <2>3. CASE Run
    BY <2>3, CompileWithStarts DEF Run, In
  <2>4. CASE Compile
    BY <2>4, CompileWithStarts DEF Compile, In
  <2>5. CASE SelfTest
    BY <2>5 DEF SelfTest, In
  <2> QED BY <2>1, <2>2, <2>3, <2>4, <2>5
<1>2. Progress'
  BY <1>1 DEF Progress, Behind
<1>3. OutputIsLast' /\ TemporaryIsUsed'
  BY <1>1 DEF DriverInv, OutputIsLast, TemporaryIsUsed
<1> QED BY <1>2, <1>3 DEF DriverInv

\* A phase that is passed.
LEMMA PassKeeps ==
  ASSUME DriverInv, NEW phase, NEW next, Pass(phase, next),
         Behind(next) \subseteq Behind(phase) \cup {phase},
         phase \notin {"return", "ended", "arguments", "start"},
         next \notin {"write", "return", "ended", "arguments", "start"}
  PROVE  DriverInv'
<1>1. /\ pc = phase /\ pc' = next /\ passed' = passed \cup {phase}
      /\ mode' = mode /\ temp' = temp /\ output' = output
  BY DEF Pass
<1>2. Progress'
  BY <1>1 DEF DriverInv, Progress
<1>3. OutputIsLast' /\ TemporaryIsUsed'
  BY <1>1 DEF DriverInv, OutputIsLast, TemporaryIsUsed
<1> QED BY <1>2, <1>3 DEF DriverInv

\* A phase that is not.
LEMMA FailKeeps ==
  ASSUME DriverInv, NEW phase, Fail(phase), phase \notin {"return", "ended"}
  PROVE  DriverInv'
<1>1. pc = phase /\ pc' = "return" /\ exit' = 1 /\ output' = output
  BY DEF Fail
<1>2. Progress'
  BY <1>1 DEF Progress, Behind
<1>3. OutputIsLast' /\ TemporaryIsUsed'
  BY <1>1 DEF DriverInv, OutputIsLast, TemporaryIsUsed
<1> QED BY <1>2, <1>3 DEF DriverInv

LEMMA PhasesKeep ==
  ASSUME DriverInv,
         \/ LoadSource \/ LoadGrammar \/ LoadTranslation
         \/ LexStandardLibrary \/ LexSource \/ ParseTokens \/ Analyze
  PROVE  DriverInv'
<1>1. CASE LoadSource
  BY <1>1, PassKeeps, FailKeeps DEF LoadSource, Behind
<1>2. CASE LoadGrammar
  BY <1>2, PassKeeps, FailKeeps DEF LoadGrammar, Behind
<1>3. CASE LoadTranslation
  BY <1>3, PassKeeps, FailKeeps DEF LoadTranslation, Behind
<1>4. CASE LexStandardLibrary
  BY <1>4, PassKeeps, FailKeeps DEF LexStandardLibrary, Behind
<1>5. CASE LexSource
  BY <1>5, PassKeeps DEF LexSource, Behind
<1>6. CASE ParseTokens
  BY <1>6, PassKeeps, FailKeeps DEF ParseTokens, Behind
<1>7. CASE Analyze
  <2>1. CASE Pass("analyze", "generate")
    BY <2>1, PassKeeps DEF Behind, Phases
  <2>2. CASE Fail("analyze")
    BY <2>2, FailKeeps
  <2>3. CASE pc = "analyze" /\ Exit(Crash) /\ output' = output
    <3>1. pc' = "ended" /\ exit' = Crash /\ exit' # 0
      BY <2>3 DEF Exit, Crash
    <3> QED BY <2>3, <3>1 DEF DriverInv, Progress, OutputIsLast,
                              TemporaryIsUsed, Behind
  <2> QED BY <1>7, <2>1, <2>2, <2>3 DEF Analyze
<1> QED BY <1>1, <1>2, <1>3, <1>4, <1>5, <1>6, <1>7

LEMMA EndsKeep ==
  ASSUME DriverInv, FallOffTheEnd \/ Generate \/ WriteOutput \/ Return
  PROVE  DriverInv'
<1>1. CASE FallOffTheEnd
  <2>1. /\ pc = "generate" /\ mode = "selftest" /\ mode' = mode
        /\ output' = output
        /\ pc' = "return" \/ (pc' = "ended" /\ exit' = Crash)
    BY <1>1 DEF FallOffTheEnd, Exit
  <2>2. Progress'
    BY <2>1 DEF Progress, Behind, Earned
  <2>3. OutputIsLast' /\ TemporaryIsUsed'
    BY <2>1 DEF DriverInv, OutputIsLast, TemporaryIsUsed
  <2> QED BY <2>2, <2>3 DEF DriverInv
<1>2. CASE Generate
  <2>1. /\ pc = "generate" /\ mode # "selftest" /\ mode' = mode
        /\ output' = output /\ used' = used /\ passed \subseteq passed'
        /\ used.language # Empty => "generate" \in passed'
        /\ pc' = "return" \/ (pc' = "write" /\ "generate" \in passed')
    BY <1>2 DEF Generate, Succeed
  <2>2. Phases \subseteq passed'
    BY <2>1 DEF DriverInv, Progress, Behind
  <2>3. Progress'
    BY <2>1, <2>2 DEF Progress, Behind, Earned, Compiled
  <2>4. OutputIsLast' /\ TemporaryIsUsed'
    BY <2>1 DEF DriverInv, OutputIsLast, TemporaryIsUsed
  <2> QED BY <2>3, <2>4 DEF DriverInv
<1>3. CASE WriteOutput
  <2>1. CASE Fail("write")
    BY <2>1, FailKeeps
  <2>2. CASE /\ pc = "write" /\ Succeed
             /\ UNCHANGED <<parserVars, selftest, mode, used, passed, temp>>
    <3>1. /\ pc' = "return" /\ exit' = 0 /\ mode' = mode /\ used' = used
          /\ passed' = passed
      BY <2>2 DEF Succeed
    <3>2. mode = "selftest" \/ Compiled
      BY <2>2 DEF DriverInv, Progress, Behind, Compiled
    <3>3. Progress'
      BY <3>1, <3>2 DEF Progress, Behind, Earned, Compiled
    <3>4. OutputIsLast' /\ TemporaryIsUsed'
      BY <3>1 DEF OutputIsLast, TemporaryIsUsed
    <3> QED BY <3>3, <3>4 DEF DriverInv
  <2> QED BY <1>3, <2>1, <2>2 DEF WriteOutput
<1>4. CASE Return
  BY <1>4 DEF Return, DriverInv, Progress, OutputIsLast, TemporaryIsUsed,
              Behind, Earned, Compiled
<1> QED BY <1>1, <1>2, <1>3, <1>4

THEOREM Driving == Spec => []DriverInv
<1>1. Init => DriverInv
  BY DEF Init, DriverInv, Progress, OutputIsLast, TemporaryIsUsed, Behind
<1>2. DriverInv /\ [Next]_vars => DriverInv'
  <2> SUFFICES ASSUME DriverInv, [Next]_vars PROVE DriverInv'
    OBVIOUS
  <2>1. CASE UNCHANGED vars
    BY <2>1 DEF vars, driverVars, DriverInv, Progress, OutputIsLast,
                TemporaryIsUsed, Behind, Earned, Compiled
  <2>2. CASE Next
    BY <2>1, <2>2, ArgumentsKeep, ModesKeep, CompilationsKeep, PhasesKeep,
       EndsKeep DEF Next, Terminated
  <2> QED BY <2>1, <2>2
<1> QED BY <1>1, <1>2, PTL DEF Spec

-----------------------------------------------------------------------------
(* What the runs check *)

(***************************************************************************)
(* A compilation that main() calls a success has passed every phase, and   *)
(* has generated code when a target was passed on.                         *)
(***************************************************************************)
THEOREM SuccessesAreEarned == Spec => []SuccessIsEarned
<1>1. DriverInv => SuccessIsEarned
  BY DEF DriverInv, Progress, Earned, Compiled, SuccessIsEarned
<1> QED BY <1>1, Driving, PTL

(***************************************************************************)
(* Whatever phase stops a run, the file that --output names is the one of  *)
(* before.                                                                 *)
(***************************************************************************)
THEOREM OutputSurvivesFailures == Spec => []FailuresLeaveTheOutput
<1>1. DriverInv => FailuresLeaveTheOutput
  BY DEF DriverInv, OutputIsLast, FailuresLeaveTheOutput
<1> QED BY <1>1, Driving, PTL

(***************************************************************************)
(* Every way back to main() removes the temporary file of --stdin.         *)
(***************************************************************************)
THEOREM TemporaryFileIsRemoved == Spec => []TemporaryIsRemoved
<1>1. DriverInv => TemporaryIsRemoved
  BY DEF DriverInv, TemporaryIsUsed, TemporaryIsRemoved
<1> QED BY <1>1, Driving, PTL

-----------------------------------------------------------------------------
(* What a run promises *)

\* The exit code is open until the run is over or on its way back to main().
Decided ==
  /\ pc \notin {"return", "ended"} => exit = NoExit
  /\ pc = "return" => exit \in {0, 1}
  /\ temp \in BOOLEAN

LEMMA OutcomeOf ==
  /\ exit = NoExit => Outcome = "pending"
  /\ exit = 0 => Outcome = "success"
  /\ exit = Crash => Outcome = "crashed"
  /\ exit \in {1, 2} => Outcome = "failure"
BY DEF Outcome, NoExit, Crash

LEMMA OutcomeOfNext ==
  /\ exit' = NoExit => Outcome' = "pending"
  /\ exit' = 0 => Outcome' = "success"
  /\ exit' = Crash => Outcome' = "crashed"
  /\ exit' \in {1, 2} => Outcome' = "failure"
BY DEF Outcome, NoExit, Crash

LEMMA OutcomeKept == exit' = exit => Outcome' = Outcome
BY DEF Outcome

\* A step on the way: nothing that Compilation speaks of changes.
LEMMA OnTheWay ==
  ASSUME Decided, exit' = exit, temp' = temp, output' = output,
         pc \notin {"return", "ended"}, pc' \notin {"return", "ended"}
  PROVE  Decided' /\ UNCHANGED Promise!vars
BY OutcomeKept DEF Decided, Promise!vars

\* The step that decides.
LEMMA Deciding ==
  ASSUME Decided, DriverInv, pc \notin {"return", "ended"}, temp' = temp,
         \/ pc' = "return" /\ exit' \in {0, 1}
         \/ pc' = "ended" /\ exit' \in {0, 1, 2, Crash},
         \/ output' = output
         \/ exit' = 0 /\ output' \in {"code", "part"}
  PROVE  Decided' /\ Promise!Next
<1>1. Decided'
  BY DEF Decided
<1>2. Outcome = "pending" /\ output = "old"
  BY OutcomeOf DEF Decided, DriverInv, OutputIsLast
<1>3. CASE exit' = 0
  <2>1. Promise!Succeed
    BY <1>2, <1>3, OutcomeOfNext DEF Promise!Succeed
  <2> QED BY <1>1, <2>1 DEF Promise!Next
<1>4. CASE exit' \in {1, 2, Crash}
  <2>1. Outcome' \in {"failure", "crashed"} /\ output' = output
    BY <1>4, OutcomeOfNext DEF Crash
  <2>2. Promise!Fail
    BY <1>2, <2>1 DEF Promise!Fail
  <2> QED BY <1>1, <2>2 DEF Promise!Next
<1> QED BY <1>3, <1>4

Promised == Decided' /\ [Promise!Next]_(Promise!vars)

LEMMA ModesPromise ==
  ASSUME Decided, DriverInv, Inform \/ Refuse \/ LexSamples \/ DemoMissing
  PROVE  Promised
<1>1. /\ pc = "start" /\ pc' = "ended" /\ temp' = temp /\ output' = output
      /\ exit' \in {0, 1, 2}
  BY DEF Inform, Refuse, LexSamples, DemoMissing, In, Exit
<1> QED BY <1>1, Deciding DEF Promised

LEMMA CompilationsPromise ==
  ASSUME Decided, DriverInv,
         ReadsArguments \/ Dispatch \/ Demo \/ Stdin \/ Run \/ Compile \/ SelfTest
  PROVE  Promised
<1>1. CASE ReadsArguments \/ Dispatch \/ SelfTest
  <2>1. /\ pc \notin {"return", "ended"} /\ pc' \notin {"return", "ended"}
        /\ exit' = exit /\ temp' = temp /\ output' = output
    BY <1>1 DEF ReadsArguments, Dispatch, SelfTest, In, driverVars
  <2> QED BY <2>1, OnTheWay DEF Promised
<1>2. ASSUME NEW source, NEW grammar, NEW translation, NEW language, NEW file,
             CompileWith(source, grammar, translation, language, file)
      PROVE  pc' = "source" /\ output' = output /\ exit' = exit
  BY <1>2 DEF CompileWith
<1>3. CASE Demo \/ Run \/ Compile
  <2>1. /\ pc = "start" /\ pc' = "source" /\ exit' = exit /\ temp' = temp
        /\ output' = output
    BY <1>2, <1>3 DEF Demo, Run, Compile, In
  <2> QED BY <2>1, OnTheWay DEF Promised
<1>4. CASE Stdin
  <2>1. /\ pc = "start" /\ pc' = "source" /\ exit' = exit /\ temp' = TRUE
        /\ output' = output
    BY <1>2, <1>4 DEF Stdin, In
  <2>2. exit = NoExit /\ temp = FALSE
    BY <2>1 DEF Decided, DriverInv, TemporaryIsUsed
  <2>3. Decided'
    BY <2>1, <2>2 DEF Decided
  <2>4. Promise!Start
    BY <2>1, <2>2, OutcomeOf, OutcomeKept DEF Promise!Start
  <2> QED BY <2>3, <2>4 DEF Promised, Promise!Next
<1> QED BY <1>1, <1>3, <1>4

LEMMA PhasesPromise ==
  ASSUME Decided, DriverInv,
         \/ LoadSource \/ LoadGrammar \/ LoadTranslation
         \/ LexStandardLibrary \/ LexSource \/ ParseTokens \/ Analyze
  PROVE  Promised
<1>1. ASSUME NEW phase, NEW next, Pass(phase, next),
             phase \notin {"return", "ended"}, next \notin {"return", "ended"}
      PROVE  Promised
  BY <1>1, OnTheWay DEF Pass, Promised
<1>2. ASSUME NEW phase, Fail(phase), phase \notin {"return", "ended"}
      PROVE  Promised
  BY <1>2, Deciding DEF Fail, Promised
<1>3. CASE \/ LoadSource \/ LoadGrammar \/ LoadTranslation
           \/ LexStandardLibrary \/ LexSource \/ ParseTokens
  BY <1>1, <1>2, <1>3 DEF LoadSource, LoadGrammar, LoadTranslation,
                          LexStandardLibrary, LexSource, ParseTokens
<1>4. CASE Analyze
  <2>1. CASE pc = "analyze" /\ Exit(Crash) /\ UNCHANGED <<temp, output>>
    BY <2>1, Deciding DEF Exit, Promised
  <2> QED BY <1>1, <1>2, <1>4, <2>1 DEF Analyze
<1> QED BY <1>3, <1>4

LEMMA EndsPromise ==
  ASSUME Decided, DriverInv, FallOffTheEnd \/ Generate \/ WriteOutput \/ Return
  PROVE  Promised
<1>1. CASE FallOffTheEnd
  <2>1. /\ pc = "generate" /\ temp' = temp /\ output' = output
        /\ \/ pc' = "return" /\ exit' \in {0, 1}
           \/ pc' = "ended" /\ exit' = Crash
    BY <1>1 DEF FallOffTheEnd, Exit
  <2> QED BY <2>1, Deciding DEF Promised
<1>2. CASE Generate
  <2>1. /\ pc = "generate" /\ temp' = temp /\ output' = output
        /\ \/ pc' = "return" /\ exit' = 0
           \/ pc' = "write" /\ exit' = exit
    BY <1>2 DEF Generate, Succeed
  <2>2. CASE pc' = "return"
    BY <2>1, <2>2, Deciding DEF Promised
  <2>3. CASE pc' = "write"
    BY <2>1, <2>3, OnTheWay DEF Promised
  <2> QED BY <2>1, <2>2, <2>3
<1>3. CASE WriteOutput
  <2>1. /\ pc = "write" /\ temp' = temp /\ pc' = "return"
        /\ \/ exit' = 1 /\ output' = output
           \/ exit' = 0 /\ output' \in {"code", "part"}
    BY <1>3 DEF WriteOutput, Fail, Succeed
  <2> QED BY <2>1, Deciding DEF Promised
<1>4. CASE Return
  <2>1. /\ pc = "return" /\ pc' = "ended" /\ temp' = FALSE /\ exit' = exit
        /\ output' = output
    BY <1>4 DEF Return
  <2>2. exit \in {0, 1} /\ temp \in BOOLEAN
    BY <2>1 DEF Decided
  <2>3. Decided'
    BY <2>1 DEF Decided
  <2>4. Outcome \in {"success", "failure"} /\ Outcome' = Outcome
    BY <2>1, <2>2, OutcomeOf, OutcomeKept
  <2>5. CASE temp
    <3>1. Promise!CleanUp
      BY <2>1, <2>4, <2>5 DEF Promise!CleanUp
    <3> QED BY <2>3, <3>1 DEF Promised, Promise!Next
  <2>6. CASE ~temp
    <3>1. temp' = temp
      BY <2>1, <2>2, <2>6
    <3>2. UNCHANGED Promise!vars
      BY <2>1, <2>4, <3>1 DEF Promise!vars
    <3> QED BY <2>3, <3>2 DEF Promised
  <2> QED BY <2>5, <2>6
<1> QED BY <1>1, <1>2, <1>3, <1>4

(***************************************************************************)
(* Every run keeps the promise of Compilation: one decision, an output     *)
(* file that changes only with a success, and no temporary file kept.      *)
(***************************************************************************)
THEOREM DriverImplementsCompilation == Spec => Implements
<1>1. Init => Decided /\ Promise!Init
  BY OutcomeOf DEF Init, Decided, Promise!Init
<1>2. Decided /\ DriverInv /\ [Next]_vars => Promised
  <2> SUFFICES ASSUME Decided, DriverInv, [Next]_vars PROVE Promised
    OBVIOUS
  <2>1. CASE UNCHANGED vars
    <3>1. /\ pc' = pc /\ exit' = exit /\ temp' = temp /\ output' = output
      BY <2>1 DEF vars, driverVars
    <3>2. Decided' /\ UNCHANGED Promise!vars
      BY <3>1, OutcomeKept DEF Decided, Promise!vars
    <3> QED BY <3>2 DEF Promised
  <2>2. CASE Next
    BY <2>1, <2>2, ModesPromise, CompilationsPromise, PhasesPromise, EndsPromise
       DEF Next, Terminated
  <2> QED BY <2>1, <2>2
<1>3. Decided /\ DriverInv /\ [Next]_vars
        => Decided' /\ [Promise!Next]_(Promise!vars)
  BY <1>2 DEF Promised
<1> QED BY <1>1, <1>3, Driving, PTL DEF Spec, Implements, Promise!Spec
-----------------------------------------------------------------------------
(***************************************************************************)
(* What a run makes of its arguments: each word and each value gets to the *)
(* place that the code has for it.                                         *)
(***************************************************************************)

\* The rule that Starts is made of, up to a position.
IsStart(f, n) ==
  \A k \in 1 .. n :
    f[k] <=> (k = 1 \/ ~(f[k - 1] /\ argv[k - 1] \in ValueOption))

LEMMA StartsExist ==
  ASSUME NEW n \in Nat
  PROVE  \E f \in [1 .. n -> BOOLEAN] : IsStart(f, n)
<1> DEFINE T == {k \in Nat : ~ \E f \in [1 .. k -> BOOLEAN] : IsStart(f, k)}
<1>1. SUFFICES ASSUME T # {} PROVE FALSE
  OBVIOUS
<1>2. PICK m \in T : \A k \in T : m <= k
  BY <1>1, LeastNumber
<1>3. m # 0
  <2>1. [k \in 1 .. 0 |-> TRUE] \in [1 .. 0 -> BOOLEAN]
    OBVIOUS
  <2>2. IsStart([k \in 1 .. 0 |-> TRUE], 0)
    BY DEF IsStart
  <2> QED BY <1>2, <2>1, <2>2
<1>4. m - 1 \in Nat /\ m - 1 \notin T
  BY <1>2, <1>3
<1>5. PICK f \in [1 .. m - 1 -> BOOLEAN] : IsStart(f, m - 1)
  BY <1>4
<1> DEFINE g == [k \in 1 .. m |->
                  IF k = m THEN m = 1 \/ ~(f[m - 1] /\ argv[m - 1] \in ValueOption)
                  ELSE f[k]]
<1>6. g \in [1 .. m -> BOOLEAN]
  <2>1. ASSUME NEW k \in 1 .. m PROVE g[k] \in BOOLEAN
    <3>1. CASE k = m
      BY <3>1
    <3>2. CASE k # m
      <4>1. k \in 1 .. m - 1
        BY <1>4, <3>2
      <4> QED BY <3>2, <4>1
    <3> QED BY <3>1, <3>2
  <2> QED BY <2>1
<1>7. IsStart(g, m)
  <2> SUFFICES ASSUME NEW k \in 1 .. m
      PROVE g[k] <=> (k = 1 \/ ~(g[k - 1] /\ argv[k - 1] \in ValueOption))
    BY DEF IsStart
  <2>1. k # 1 => k - 1 \in 1 .. m /\ k - 1 # m
    BY <1>4
  <2>2. k # 1 => g[k - 1] = f[k - 1]
    BY <2>1
  <2>3. CASE k = m
    BY <2>2, <2>3
  <2>4. CASE k # m
    <3>1. k \in 1 .. m - 1
      BY <1>4, <2>4
    <3>2. g[k] = f[k]
      BY <2>4
    <3>3. f[k] <=> (k = 1 \/ ~(f[k - 1] /\ argv[k - 1] \in ValueOption))
      BY <1>5, <3>1 DEF IsStart
    <3> QED BY <2>2, <3>2, <3>3
  <2> QED BY <2>3, <2>4
<1> QED BY <1>2, <1>6, <1>7

LEMMA StartsAre ==
  ASSUME argv \in Seq(Argument)
  PROVE  /\ Starts \subseteq 1 .. Len(argv)
         /\ \A k \in 1 .. Len(argv) :
              k \in Starts <=>
                (k = 1 \/ ~(k - 1 \in Starts /\ argv[k - 1] \in ValueOption))
<1>1. Len(argv) \in Nat
  OBVIOUS
<1>2. PICK f \in [1 .. Len(argv) -> BOOLEAN] : IsStart(f, Len(argv))
  BY <1>1, StartsExist
<1> DEFINE start[k \in 1 .. Len(argv)] ==
        k = 1 \/ ~(start[k - 1] /\ argv[k - 1] \in ValueOption)
<1>3. f = [k \in 1 .. Len(argv) |->
             k = 1 \/ ~(f[k - 1] /\ argv[k - 1] \in ValueOption)]
  BY <1>2 DEF IsStart
<1>4. start = [k \in 1 .. Len(argv) |->
                 k = 1 \/ ~(start[k - 1] /\ argv[k - 1] \in ValueOption)]
  BY <1>3
<1>5. Starts = {k \in 1 .. Len(argv) : start[k]}
  BY DEF Starts
<1> HIDE DEF start
<1>6. ASSUME NEW k \in 1 .. Len(argv)
      PROVE  k \in Starts <=>
               (k = 1 \/ ~(k - 1 \in Starts /\ argv[k - 1] \in ValueOption))
  <2>1. k \in Starts <=> start[k]
    BY <1>5
  <2>2. start[k] <=> (k = 1 \/ ~(start[k - 1] /\ argv[k - 1] \in ValueOption))
    BY <1>4
  <2>3. k # 1 => (k - 1 \in Starts <=> start[k - 1])
    BY <1>1, <1>5
  <2> QED BY <2>1, <2>2, <2>3
<1> QED BY <1>5, <1>6
-----------------------------------------------------------------------------
(* Types *)

\* Only --standard puts a word into the options that was no argument.
Options ==
  {o \in [flags : SUBSET Flag,
          value : [ValueOption -> Argument \cup {DefaultGrammar}],
          source : Word, command : Command \cup {Empty}, legacy : BOOLEAN,
          positional : Seq(Word), error : Errors] :
     \A p \in ValueOption \ {"--grammar"} : o.value[p] \in Argument}

ReadingTyped ==
  /\ argv \in Seq(Argument)
  /\ i \in 1 .. Len(argv) + 1
  /\ reading \in BOOLEAN
  /\ opts \in Options

LEMMA WithValue ==
  ASSUME NEW o \in Options, NEW p \in ValueOption, NEW w \in Argument
  PROVE  [o EXCEPT !.value[p] = w] \in Options
BY DEF Options

LEMMA WithWords ==
  ASSUME NEW o \in Options, NEW s \in Seq(Word)
  PROVE  [o EXCEPT !.positional = s] \in Options
BY DEF Options

LEMMA WordsAreArguments == Word \subseteq Argument
BY DEF Argument

LEMMA FirstWord ==
  ASSUME NEW o \in Options, o.positional # <<>>
  PROVE  Head(o.positional) \in Word /\ Tail(o.positional) \in Seq(Word)
BY HeadTailProperties DEF Options

LEMMA WithSourceTyped ==
  ASSUME NEW o \in Options
  PROVE  WithSource(o) \in Options
BY FirstWord DEF WithSource, Options

LEMMA WithFileTyped ==
  ASSUME NEW o \in Options, NEW p \in ValueOption
  PROVE  WithFile(o, p) \in Options
<1>1. CASE o.positional = <<>> \/ o.value[p] # Empty
  BY <1>1 DEF WithFile
<1>2. CASE o.positional # <<>> /\ o.value[p] = Empty
  <2>1. Head(o.positional) \in Argument /\ Tail(o.positional) \in Seq(Word)
    BY <1>2, FirstWord, WordsAreArguments
  <2> QED BY <1>2, <2>1 DEF WithFile, Options
<1> QED BY <1>1, <1>2

LEMMA CompileFilesTyped ==
  ASSUME NEW o \in Options
  PROVE  CompileFiles(o) \in Options
<1>1. "--grammar" \in ValueOption /\ "--translation" \in ValueOption
  BY DEF ValueOption
<1> QED BY <1>1, WithSourceTyped, WithFileTyped DEF CompileFiles

LEMMA LegacyTyped ==
  ASSUME NEW o \in Options
  PROVE  Legacy(o) \in Options
<1>1. CASE ~IsLegacy(o)
  BY <1>1 DEF Legacy
<1>2. CASE IsLegacy(o)
  <2>1. \A k \in 1 .. 3 : o.positional[k] \in Word
    BY <1>2, ElementOfSeq DEF IsLegacy, Options
  <2>2. /\ o.positional[1] \in Word
        /\ o.positional[2] \in Argument /\ o.positional[3] \in Argument
    BY <2>1, WordsAreArguments
  <2>3. "compile" \in Command /\ <<>> \in Seq(Word)
    BY DEF Command
  <2> QED BY <1>2, <2>2, <2>3 DEF Legacy, Options
<1> QED BY <1>1, <1>2

LEMMA StandardGrammarTyped ==
  ASSUME NEW o \in Options
  PROVE  StandardGrammar(o) \in Options
BY DEF StandardGrammar, Options, Errors

LEMMA ReadingStaysTyped ==
  ASSUME ReadingTyped, [ReadArguments]_parserVars
  PROVE  ReadingTyped'
<1>1. CASE UNCHANGED parserVars
  BY <1>1 DEF parserVars, ReadingTyped
<1>2. CASE TakeFlag
  <2>1. opts' \in Options
    BY <1>2 DEF TakeFlag, Reads, ReadingTyped, Options, Command
  <2> QED BY <1>2, <2>1 DEF TakeFlag, Reads, ReadingTyped
<1>3. CASE TakeValue
  <2>1. argv[i + 1] \in Argument /\ Arg \in ValueOption
    BY <1>3 DEF TakeValue, Reads, ReadingTyped
  <2>2. opts' \in Options
    BY <1>3, <2>1, WithValue DEF TakeValue, ReadingTyped
  <2> QED BY <1>3, <2>2 DEF TakeValue, Reads, ReadingTyped
<1>4. CASE TakeCommand
  <2>1. opts' \in Options
    BY <1>4 DEF TakeCommand, Reads, ReadingTyped, Options
  <2> QED BY <1>4, <2>1 DEF TakeCommand, Reads, ReadingTyped
<1>5. CASE TakePositional
  <2>1. opts.positional \in Seq(Word)
    BY DEF ReadingTyped, Options
  <2>2. Append(opts.positional, Arg) \in Seq(Word)
    BY <1>5, <2>1, AppendProperties DEF TakePositional, Reads
  <2>3. opts' \in Options
    BY <1>5, <2>2 DEF TakePositional, ReadingTyped, Options
  <2> QED BY <1>5, <2>3 DEF TakePositional, Reads, ReadingTyped
<1>6. CASE MissingValue \/ UnknownOption
  <2>1. opts' \in Options
    BY <1>6 DEF MissingValue, UnknownOption, Reject, ReadingTyped, Options, Errors
  <2> QED BY <1>6, <2>1 DEF MissingValue, UnknownOption, Reject, ReadingTyped
<1>7. CASE EndOfArguments
  <2>1. opts' \in Options
    BY <1>7, CompileFilesTyped, LegacyTyped, StandardGrammarTyped
       DEF EndOfArguments, ReadingTyped
  <2> QED BY <1>7, <2>1 DEF EndOfArguments, ReadingTyped
<1> QED BY <1>1, <1>2, <1>3, <1>4, <1>5, <1>6, <1>7 DEF ReadArguments
-----------------------------------------------------------------------------
(* The loop over the arguments *)

\* At the top of the loop the next argument is the value of no option.
AtStart(n) == n <= Len(argv) => n \in Starts

Uses(option, n) == {k \in Starts : k < n /\ argv[k] = option}

\* Each option has the value that it was given last.
ValuesAt(n, value) ==
  \A option \in ValueOption :
    /\ Uses(option, n) = {} => value[option] = Empty
    /\ \A k \in Uses(option, n) :
         (\A l \in Uses(option, n) : l <= k) => value[option] = argv[k + 1]

\* The number of a word among the words.
Rank(l) == Cardinality({m \in Starts : m <= l /\ argv[m] \in Word})

WordStarts == {l \in Starts : argv[l] \in Word}

\* The words in front of an argument.
WordsAt(n, words) ==
  /\ words \in Seq(Word)
  /\ Len(words) = Rank(n - 1)
  /\ \A l \in WordStarts :
       l < n => Rank(l) \in 1 .. Len(words) /\ words[Rank(l)] = argv[l]
  /\ \A k \in 1 .. Len(words) : \E l \in WordStarts : l < n /\ Rank(l) = k

LEMMA KindsAreDisjoint ==
  /\ Flag \cap ValueOption = {} /\ Command \cap ValueOption = {}
  /\ Word \cap ValueOption = {} /\ Word \cap Flag = {} /\ Word \cap Command = {}
BY WordAssumption DEF Flag, ValueOption, Command

LEMMA NextStart ==
  ASSUME argv \in Seq(Argument), NEW n \in 1 .. Len(argv), n \in Starts
  PROVE  /\ argv[n] \notin ValueOption => AtStart(n + 1)
         /\ argv[n] \in ValueOption => n + 1 \notin Starts /\ AtStart(n + 2)
<1>1. Starts \subseteq 1 .. Len(argv)
  BY StartsAre
<1>2. n + 1 \in 1 .. Len(argv) => (n + 1 \in Starts <=> argv[n] \notin ValueOption)
  <2>1. n + 1 # 1 /\ (n + 1) - 1 = n
    OBVIOUS
  <2> QED BY <2>1, StartsAre
<1>3. n + 2 \in 1 .. Len(argv) /\ n + 1 \notin Starts => n + 2 \in Starts
  <2>1. n + 2 # 1 /\ (n + 2) - 1 = n + 1
    OBVIOUS
  <2> QED BY <2>1, StartsAre
<1> QED BY <1>1, <1>2, <1>3 DEF AtStart

LEMMA ValuesKept ==
  ASSUME argv \in Seq(Argument), NEW n \in 1 .. Len(argv),
         NEW value, ValuesAt(n, value), argv[n] \notin ValueOption
  PROVE  ValuesAt(n + 1, value)
<1>1. Starts \subseteq 1 .. Len(argv)
  BY StartsAre
<1>2. ASSUME NEW option \in ValueOption
      PROVE  Uses(option, n + 1) = Uses(option, n)
  <2>1. \A k \in Starts : k < n + 1 => k < n \/ k = n
    BY <1>1
  <2>2. \A k \in Starts : k < n => k < n + 1
    BY <1>1
  <2> QED BY <2>1, <2>2 DEF Uses
<1> QED BY <1>2 DEF ValuesAt

LEMMA ValuesTaken ==
  ASSUME argv \in Seq(Argument), NEW n \in 1 .. Len(argv), n \in Starts,
         NEW value, ValuesAt(n, value), argv[n] \in ValueOption,
         DOMAIN value = ValueOption
  PROVE  ValuesAt(n + 2, [value EXCEPT ![argv[n]] = argv[n + 1]])
<1> DEFINE new == [value EXCEPT ![argv[n]] = argv[n + 1]]
<1>1. Starts \subseteq 1 .. Len(argv) /\ n + 1 \notin Starts
  BY StartsAre, NextStart
<1>2. \A k \in Starts : k < n + 2 <=> k < n \/ k = n
  BY <1>1
<1>3. ASSUME NEW option \in ValueOption, option # argv[n]
      PROVE  Uses(option, n + 2) = Uses(option, n) /\ new[option] = value[option]
  BY <1>2, <1>3 DEF Uses
<1>4. Uses(argv[n], n + 2) = Uses(argv[n], n) \cup {n}
  BY <1>2 DEF Uses
<1>5. ASSUME NEW k \in Uses(argv[n], n + 2), \A l \in Uses(argv[n], n + 2) : l <= k
      PROVE  new[argv[n]] = argv[k + 1]
  <2>1. k \in Int /\ n <= k /\ (k < n \/ k = n)
    BY <1>1, <1>4, <1>5 DEF Uses
  <2>2. k = n
    BY <2>1
  <2> QED BY <2>2
<1>6. Uses(argv[n], n + 2) # {}
  BY <1>4
<1>7. ASSUME NEW option \in ValueOption
      PROVE  /\ Uses(option, n + 2) = {} => new[option] = Empty
             /\ \A k \in Uses(option, n + 2) :
                  (\A l \in Uses(option, n + 2) : l <= k)
                    => new[option] = argv[k + 1]
  <2>1. CASE option = argv[n]
    BY <1>5, <1>6, <2>1
  <2>2. CASE option # argv[n]
    BY <1>3, <2>2 DEF ValuesAt
  <2> QED BY <2>1, <2>2
<1> HIDE DEF new
<1>8. ValuesAt(n + 2, new)
  BY <1>7 DEF ValuesAt
<1> QED BY <1>8 DEF new

-----------------------------------------------------------------------------
LEMMA Ranking ==
  ASSUME argv \in Seq(Argument), NEW n \in Nat
  PROVE  /\ Rank(n) \in Nat
         /\ Rank(0) = 0
         /\ n + 1 \in WordStarts => Rank(n + 1) = Rank(n) + 1
         /\ n + 1 \notin WordStarts => Rank(n + 1) = Rank(n)
<1> DEFINE Upto(k) == {m \in Starts : m <= k /\ argv[m] \in Word}
<1>1. Starts \subseteq 1 .. Len(argv) /\ Len(argv) \in Nat
  BY StartsAre, LenProperties
<1>2. ASSUME NEW k \in Nat
      PROVE  IsFiniteSet(Upto(k)) /\ Cardinality(Upto(k)) \in Nat
  <2>1. IsFiniteSet(1 .. Len(argv))
    BY <1>1, FS_Interval
  <2>2. Upto(k) \in SUBSET (1 .. Len(argv))
    BY <1>1
  <2>3. IsFiniteSet(Upto(k))
    BY <2>1, <2>2, FS_Subset
  <2> QED BY <2>3, FS_CardinalityType
<1>3. Upto(0) = {}
  <2>1. ASSUME NEW m \in Starts, m <= 0 PROVE FALSE
    BY <1>1, <2>1
  <2> QED BY <2>1
<1>4. Cardinality(Upto(0)) = 0
  BY <1>3, FS_EmptySet
<1>5. \A m \in Starts : m <= n + 1 <=> m <= n \/ m = n + 1
  BY <1>1
<1>6. n + 1 \in WordStarts => Upto(n + 1) = Upto(n) \cup {n + 1}
  BY <1>5 DEF WordStarts
<1>7. n + 1 \notin WordStarts => Upto(n + 1) = Upto(n)
  BY <1>5 DEF WordStarts
<1>8. n + 1 \notin Upto(n)
  OBVIOUS
<1> HIDE DEF Upto
<1>9. n + 1 \in WordStarts => Cardinality(Upto(n + 1)) = Cardinality(Upto(n)) + 1
  BY <1>2, <1>6, <1>8, FS_AddElement
<1> QED BY <1>2, <1>4, <1>7, <1>9 DEF Rank, Upto

LEMMA WordsKept ==
  ASSUME argv \in Seq(Argument), NEW n \in 1 .. Len(argv),
         NEW words, WordsAt(n, words), n \notin WordStarts
  PROVE  WordsAt(n + 1, words)
<1>1. Starts \subseteq 1 .. Len(argv)
  BY StartsAre
<1>2. \A l \in WordStarts : l < n + 1 <=> l < n
  <2>1. WordStarts \subseteq 1 .. Len(argv)
    BY <1>1 DEF WordStarts
  <2>2. \A l \in WordStarts : l # n /\ l \in Int /\ n \in Int
    BY <2>1
  <2> QED BY <2>2
<1>3. Rank((n + 1) - 1) = Rank(n - 1)
  <2>1. n - 1 \in Nat /\ (n - 1) + 1 = n /\ (n + 1) - 1 = n
    OBVIOUS
  <2> QED BY <2>1, Ranking
<1> QED BY <1>2, <1>3 DEF WordsAt

LEMMA WordsTaken ==
  ASSUME argv \in Seq(Argument), NEW n \in 1 .. Len(argv),
         NEW words, WordsAt(n, words), n \in WordStarts
  PROVE  WordsAt(n + 1, Append(words, argv[n]))
<1> DEFINE new == Append(words, argv[n])
<1>1. Starts \subseteq 1 .. Len(argv)
  BY StartsAre
<1>2. \A l \in WordStarts : l < n + 1 <=> l < n \/ l = n
  BY <1>1 DEF WordStarts
<1>3. n - 1 \in Nat /\ (n - 1) + 1 = n /\ (n + 1) - 1 = n
  OBVIOUS
<1>4. Rank(n - 1) \in Nat /\ Rank(n) = Rank(n - 1) + 1
  BY <1>3, Ranking
<1>5. argv[n] \in Word /\ words \in Seq(Word) /\ Len(words) = Rank(n - 1)
  BY DEF WordStarts, WordsAt
<1>6. /\ new \in Seq(Word) /\ Len(new) = Len(words) + 1
      /\ \A k \in 1 .. Len(words) : new[k] = words[k]
      /\ new[Len(words) + 1] = argv[n]
  BY <1>5, AppendProperties
<1> HIDE DEF new
<1>7. Len(new) = Rank((n + 1) - 1)
  BY <1>3, <1>4, <1>5, <1>6
<1>8. ASSUME NEW l \in WordStarts, l < n + 1
      PROVE  Rank(l) \in 1 .. Len(new) /\ new[Rank(l)] = argv[l]
  <2>1. CASE l = n
    BY <1>4, <1>5, <1>6, <2>1
  <2>2. CASE l < n
    <3>1. Rank(l) \in 1 .. Len(words) /\ words[Rank(l)] = argv[l]
      BY <2>2 DEF WordsAt
    <3> QED BY <1>4, <1>5, <1>6, <3>1
  <2> QED BY <1>2, <1>8, <2>1, <2>2
<1>9. ASSUME NEW k \in 1 .. Len(new)
      PROVE  \E l \in WordStarts : l < n + 1 /\ Rank(l) = k
  <2>1. CASE k = Len(words) + 1
    BY <1>2, <1>4, <1>5, <2>1
  <2>2. CASE k \in 1 .. Len(words)
    BY <1>2, <2>2 DEF WordsAt
  <2> QED BY <1>4, <1>5, <1>6, <2>1, <2>2
<1>10. WordsAt(n + 1, new)
  BY <1>6, <1>7, <1>8, <1>9 DEF WordsAt
<1> QED BY <1>10 DEF new
-----------------------------------------------------------------------------
(* The end of the arguments *)

LEMMA AllWords ==
  ASSUME argv \in Seq(Argument), NEW words, WordsAt(Len(argv) + 1, words)
  PROVE  Words = words
<1>1. Starts \subseteq 1 .. Len(argv) /\ Len(argv) \in Nat
  BY StartsAre, LenProperties
<1>2. \A l \in WordStarts : l < Len(argv) + 1 /\ l <= Len(argv)
  BY <1>1 DEF WordStarts
<1>3. WordStarts = {m \in Starts : m <= Len(argv) /\ argv[m] \in Word}
  BY <1>1, <1>2 DEF WordStarts
<1>4. (Len(argv) + 1) - 1 = Len(argv)
  BY <1>1
<1>5. words \in Seq(Word) /\ Len(words) = Cardinality(WordStarts)
  BY <1>3, <1>4 DEF WordsAt, Rank
<1>6. Words = [k \in 1 .. Len(words) |->
                 argv[CHOOSE l \in Starts : argv[l] \in Word /\ Rank(l) = k]]
  BY <1>5 DEF Words, Rank, WordStarts
<1>7. ASSUME NEW k \in 1 .. Len(words)
      PROVE  argv[CHOOSE l \in Starts : argv[l] \in Word /\ Rank(l) = k] = words[k]
  <2> DEFINE c == CHOOSE l \in Starts : argv[l] \in Word /\ Rank(l) = k
  <2>1. \E l \in Starts : argv[l] \in Word /\ Rank(l) = k
    BY DEF WordsAt, WordStarts
  <2>2. c \in Starts /\ argv[c] \in Word /\ Rank(c) = k
    BY <2>1
  <2> HIDE DEF c
  <2>3. c \in WordStarts
    BY <2>2 DEF WordStarts
  <2>4. words[Rank(c)] = argv[c]
    BY <1>2, <2>3 DEF WordsAt
  <2>5. argv[c] = words[k]
    BY <2>2, <2>4
  <2> QED BY <2>5 DEF c
<1>8. words = [k \in 1 .. Len(words) |-> words[k]]
  BY <1>5
<1> QED BY <1>6, <1>7, <1>8

LEMMA AllValues ==
  ASSUME argv \in Seq(Argument), NEW value, ValuesAt(Len(argv) + 1, value),
         NEW option \in ValueOption
  PROVE  value[option] = Given(option)
<1> DEFINE places == {k \in Starts : argv[k] = option}
<1>1. Starts \subseteq 1 .. Len(argv) /\ Len(argv) \in Nat
  BY StartsAre, LenProperties
<1>2. \A k \in Starts : k < Len(argv) + 1
  BY <1>1
<1>3. Uses(option, Len(argv) + 1) = places
  BY <1>2 DEF Uses
<1>4. CASE places = {}
  BY <1>3, <1>4 DEF ValuesAt, Given
<1>5. CASE places # {}
  <2> DEFINE c == CHOOSE k \in places : \A l \in places : l <= k
  <2>1. places \subseteq 0 .. Len(argv)
    <3>1. 1 .. Len(argv) \subseteq 0 .. Len(argv) /\ places \subseteq Starts
      BY <1>1
    <3> HIDE DEF places
    <3> QED BY <1>1, <3>1
  <2>2. \E k \in places : \A l \in places : l <= k
    <3> HIDE DEF places
    <3> QED BY <1>1, <1>5, <2>1, GreatestNumber
  <2>3. c \in places /\ \A l \in places : l <= c
    BY <2>2
  <2>4. Given(option) = argv[c + 1]
    BY <1>5 DEF Given
  <2> HIDE DEF c, places
  <2>5. value[option] = argv[c + 1]
    BY <1>3, <2>3 DEF ValuesAt
  <2> QED BY <2>4, <2>5
<1> QED BY <1>4, <1>5

-----------------------------------------------------------------------------
(* Where the words go *)

LEMMA HeadAndTail ==
  ASSUME NEW s \in Seq(Word), s # <<>>
  PROVE  s = <<Head(s)>> \o Tail(s)
<1>1. Len(s) \in Nat \ {0}
  BY EmptySeq
<1>2. 1 \in 1 .. Len(s) /\ Len(s) \in 1 .. Len(s)
  BY <1>1
<1>3. SubSeq(s, 1, Len(s)) = <<s[1]>> \o SubSeq(s, 2, Len(s))
  <2>1. SubSeq(s, 1, Len(s)) = <<s[1]>> \o SubSeq(s, 1 + 1, Len(s))
    BY <1>2, SubSeqRecursiveFirst
  <2> QED BY <2>1
<1>4. Head(s) = s[1]
  BY <1>1
<1>5. SubSeq(s, 1, Len(s)) = s /\ Tail(s) = SubSeq(s, 2, Len(s))
  BY SubSeqFull, TailIsSubSeq
<1> QED BY <1>3, <1>4, <1>5

\* Words that are not empty strings: Kept does not drop them.
Solid == {s \in Seq(Word) : \A k \in 1 .. Len(s) : s[k] # Empty}

LEMMA SolidWords ==
  ASSUME NEW s \in Solid, s # <<>>
  PROVE  /\ Head(s) \in Word /\ Kept(Head(s)) = <<Head(s)>>
         /\ Tail(s) \in Solid
<1>1. s \in Seq(Word) /\ Len(s) \in Nat \ {0}
  BY EmptySeq DEF Solid
<1>2. /\ Head(s) \in Word /\ Tail(s) \in Seq(Word) /\ Len(Tail(s)) = Len(s) - 1
      /\ \A k \in 1 .. Len(Tail(s)) : Tail(s)[k] = s[k + 1]
  BY <1>1, HeadTailProperties
<1>3. Head(s) = s[1] /\ 1 \in 1 .. Len(s)
  BY <1>1
<1>4. Head(s) # Empty /\ Head(s) # DefaultGrammar
  BY <1>2, <1>3, WordAssumption DEF Solid
<1>5. \A k \in 1 .. Len(Tail(s)) : k + 1 \in 1 .. Len(s)
  BY <1>1, <1>2
<1>6. Tail(s) \in Solid
  BY <1>2, <1>5 DEF Solid
<1> QED BY <1>2, <1>4, <1>6 DEF Kept

LEMMA SourceTaken ==
  ASSUME NEW o \in Options, o.positional \in Solid, o.source = Empty
  PROVE  LET p == WithSource(o)
         IN  /\ p \in Options /\ p.positional \in Solid
             /\ p.value = o.value /\ p.command = o.command /\ p.legacy = o.legacy
             /\ p.error = o.error
             /\ o.positional = Kept(p.source) \o p.positional
<1>1. o.positional \in Seq(Word)
  BY DEF Options
<1>2. CASE o.positional = <<>>
  <2>1. WithSource(o) = o /\ Kept(o.source) = <<>>
    BY <1>2 DEF WithSource, Kept
  <2> QED BY <1>1, <2>1, ConcatEmptySeq
<1>3. CASE o.positional # <<>>
  <2> DEFINE p == WithSource(o)
  <2>1. p = [o EXCEPT !.source = Head(o.positional), !.positional = Tail(@)]
    BY <1>3 DEF WithSource
  <2>2. /\ p.source = Head(o.positional) /\ p.positional = Tail(o.positional)
        /\ p.value = o.value /\ p.command = o.command /\ p.legacy = o.legacy
        /\ p.error = o.error
    BY <2>1 DEF Options
  <2>3. p.positional \in Solid /\ Kept(p.source) = <<Head(o.positional)>>
    BY <1>3, <2>2, SolidWords
  <2>4. p \in Options
    BY WithSourceTyped
  <2> HIDE DEF p
  <2>5. o.positional = Kept(p.source) \o p.positional
    BY <1>1, <1>3, <2>2, <2>3, HeadAndTail
  <2> QED BY <2>2, <2>3, <2>4, <2>5 DEF p
<1> QED BY <1>2, <1>3

\* The word that an option did not give a file for.
Moved(o, p, option) ==
  IF o.value[option] # Empty THEN <<>> ELSE Kept(p.value[option])

LEMMA FileTaken ==
  ASSUME NEW o \in Options, o.positional \in Solid, NEW option \in ValueOption
  PROVE  LET p == WithFile(o, option)
         IN  /\ p \in Options /\ p.positional \in Solid
             /\ \A other \in ValueOption \ {option} : p.value[other] = o.value[other]
             /\ o.value[option] # Empty => p.value[option] = o.value[option]
             /\ p.source = o.source /\ p.command = o.command /\ p.legacy = o.legacy
             /\ p.error = o.error
             /\ o.positional = Moved(o, p, option) \o p.positional
<1>1. o.positional \in Seq(Word)
  BY DEF Options
<1>2. CASE o.positional = <<>> \/ o.value[option] # Empty
  <2>1. WithFile(o, option) = o /\ Moved(o, o, option) = <<>>
    BY <1>2 DEF WithFile, Moved, Kept
  <2> QED BY <1>1, <2>1, ConcatEmptySeq
<1>3. CASE o.positional # <<>> /\ o.value[option] = Empty
  <2> DEFINE p == WithFile(o, option)
  <2>1. p = [o EXCEPT !.value[option] = Head(o.positional), !.positional = Tail(@)]
    BY <1>3 DEF WithFile
  <2>2. /\ p.value[option] = Head(o.positional) /\ p.positional = Tail(o.positional)
        /\ \A other \in ValueOption \ {option} : p.value[other] = o.value[other]
        /\ p.source = o.source /\ p.command = o.command /\ p.legacy = o.legacy
        /\ p.error = o.error
    BY <2>1 DEF Options
  <2>3. p.positional \in Solid /\ Moved(o, p, option) = <<Head(o.positional)>>
    BY <1>3, <2>2, SolidWords DEF Moved
  <2>4. p \in Options
    BY WithFileTyped
  <2> HIDE DEF p
  <2>5. o.positional = Moved(o, p, option) \o p.positional
    BY <1>1, <1>3, <2>2, <2>3, HeadAndTail
  <2> QED BY <1>3, <2>2, <2>3, <2>4, <2>5 DEF p
<1> QED BY <1>2, <1>3

\* What an unknown standard leaves is an error; otherwise only a missing grammar
\* is filled in.
LEMMA StandardTaken ==
  ASSUME NEW o \in Options
  PROVE  LET p == StandardGrammar(o)
         IN  /\ p.source = o.source /\ p.positional = o.positional
             /\ p.command = o.command /\ p.legacy = o.legacy /\ p.flags = o.flags
             /\ \A option \in ValueOption \ {"--grammar"} :
                  p.value[option] = o.value[option]
             /\ o.value["--grammar"] # Empty =>
                  p.value["--grammar"] = o.value["--grammar"]
             /\ Kept(p.value["--grammar"]) = Kept(o.value["--grammar"])
<1>1. CASE o.value["--standard"] = Empty \/ o.value["--grammar"] # Empty
  BY <1>1 DEF StandardGrammar
<1>2. CASE /\ o.value["--grammar"] = Empty /\ o.value["--standard"] # Empty
           /\ o.value["--standard"] \in Standard
  <2>1. StandardGrammar(o) = [o EXCEPT !.value["--grammar"] = DefaultGrammar]
    BY <1>2 DEF StandardGrammar
  <2>2. "--grammar" \in ValueOption
    BY DEF ValueOption
  <2>3. Kept(DefaultGrammar) = <<>> /\ Kept(Empty) = <<>>
    BY DEF Kept
  <2> QED BY <1>2, <2>1, <2>2, <2>3 DEF Options
<1>3. CASE /\ o.value["--grammar"] = Empty /\ o.value["--standard"] # Empty
           /\ o.value["--standard"] \notin Standard
  <2>1. StandardGrammar(o) = [o EXCEPT !.error = "unknown standard"]
    BY <1>3 DEF StandardGrammar
  <2> QED BY <2>1 DEF Options
<1> QED BY <1>1, <1>2, <1>3

AfterTheLoop(o) == StandardGrammar(Legacy(CompileFiles(o)))

Overridable == {"--grammar", "--translation"}

\* A file that an option gave stays, except for the form of three bare words.
LEMMA ValuesStay ==
  ASSUME NEW o \in Options, ~o.legacy, NEW option \in Overridable,
         ~AfterTheLoop(o).legacy, o.value[option] # Empty
  PROVE  AfterTheLoop(o).value[option] = o.value[option]
<1> DEFINE p == CompileFiles(o)
           q == Legacy(p)
<1>1. "--grammar" \in ValueOption /\ "--translation" \in ValueOption
  BY DEF ValueOption
<1>2. p \in Options
  BY CompileFilesTyped
<1>3. p.value[option] = o.value[option]
  <2>1. ASSUME NEW r \in Options, NEW given \in Overridable, r.value[option] # Empty
        PROVE  WithFile(r, given).value[option] = r.value[option]
    BY <1>1, <2>1 DEF WithFile, Options, Overridable
  <2>2. WithSource(o) \in Options /\ WithSource(o).value = o.value
    BY WithSourceTyped DEF WithSource, Options
  <2>3. WithFile(WithSource(o), "--grammar") \in Options
    BY <1>1, <2>2, WithFileTyped
  <2> QED BY <2>1, <2>2, <2>3 DEF CompileFiles, Overridable
<1> HIDE DEF p
<1>4. q \in Options /\ q.legacy = AfterTheLoop(o).legacy
  BY <1>2, LegacyTyped, StandardTaken DEF AfterTheLoop, p
<1>5. q = p
  <2>1. CASE IsLegacy(p)
    <3>1. q.legacy
      BY <1>2, <2>1 DEF Legacy, Options
    <3> QED BY <1>4, <3>1
  <2>2. CASE ~IsLegacy(p)
    BY <2>2 DEF Legacy
  <2> QED BY <2>1, <2>2
<1>6. StandardGrammar(p).value[option] = p.value[option]
  BY <1>1, <1>2, <1>3, StandardTaken DEF Overridable
<1> QED BY <1>3, <1>5, <1>6 DEF AfterTheLoop, p

\* What the form of three bare words turns into.
LegacyShape(o, words) ==
  /\ o.command = "compile" /\ o.positional = <<>>
  /\ o.flags \cap {"--demo", "--stdin", "--lex-ipl-samples"} = {}
  /\ words \in Solid =>
       /\ words = <<o.source, o.value["--grammar"], o.value["--translation"]>>
       /\ Empty \notin {o.source, o.value["--grammar"], o.value["--translation"]}

LEMMA LegacyTaken ==
  ASSUME NEW o \in Options, ~o.legacy, AfterTheLoop(o).legacy
  PROVE  LegacyShape(AfterTheLoop(o), o.positional)
<1> DEFINE p == CompileFiles(o)
           q == Legacy(p)
           r == AfterTheLoop(o)
<1>1. "--grammar" \in ValueOption /\ "--translation" \in ValueOption
  BY DEF ValueOption
<1>2. p \in Options /\ p.legacy = o.legacy /\ (p.command = Empty => p = o)
  <2>1. p \in Options
    BY CompileFilesTyped
  <2>2. WithSource(o) \in Options /\ WithSource(o).legacy = o.legacy
        /\ WithSource(o).command = o.command
    BY WithSourceTyped DEF WithSource, Options
  <2>3. ASSUME NEW s \in Options, NEW option \in ValueOption
        PROVE  WithFile(s, option).legacy = s.legacy
               /\ WithFile(s, option).command = s.command
    BY DEF WithFile, Options
  <2>4. WithFile(WithSource(o), "--grammar") \in Options
    BY <1>1, <2>2, WithFileTyped
  <2>5. "compile" # Empty
    BY DEF Empty
  <2> QED BY <1>1, <2>1, <2>2, <2>3, <2>4, <2>5 DEF CompileFiles
<1> HIDE DEF p
<1>3. q \in Options /\ q.legacy
  BY <1>2, LegacyTyped, StandardTaken DEF AfterTheLoop, p
<1>4. IsLegacy(p)
  BY <1>2, <1>3 DEF Legacy
<1>5. p = o
  BY <1>2, <1>4 DEF IsLegacy
<1>6. /\ q.command = "compile" /\ q.positional = <<>> /\ q.flags = o.flags
      /\ q.source = o.positional[1]
      /\ q.value["--grammar"] = o.positional[2]
      /\ q.value["--translation"] = o.positional[3]
  BY <1>1, <1>4, <1>5 DEF Legacy, Options
<1> HIDE DEF q
<1>7. /\ r.command = "compile" /\ r.positional = <<>> /\ r.flags = o.flags
      /\ r.source = o.positional[1]
      /\ r.value["--translation"] = o.positional[3]
      /\ o.positional[2] # Empty => r.value["--grammar"] = o.positional[2]
  <2>1. "--translation" # "--grammar"
    OBVIOUS
  <2> QED BY <1>1, <1>3, <1>6, <2>1, StandardTaken DEF AfterTheLoop, p, q
<1> HIDE DEF r
<1>8. o.flags \cap {"--demo", "--stdin", "--lex-ipl-samples"} = {}
      /\ Len(o.positional) = 3
  BY <1>4, <1>5 DEF IsLegacy
<1>9. ASSUME o.positional \in Solid
      PROVE  /\ o.positional =
                  <<r.source, r.value["--grammar"], r.value["--translation"]>>
             /\ Empty \notin {r.source, r.value["--grammar"], r.value["--translation"]}
  <2>1. /\ o.positional \in Seq(Word) /\ o.positional[1] # Empty
        /\ o.positional[2] # Empty /\ o.positional[3] # Empty
    BY <1>8, <1>9 DEF Solid
  <2>2. o.positional = <<o.positional[1], o.positional[2], o.positional[3]>>
    BY <1>8, <2>1
  <2> QED BY <1>7, <2>1, <2>2
<1>10. LegacyShape(r, o.positional)
  BY <1>7, <1>8, <1>9 DEF LegacyShape
<1> QED BY <1>10 DEF r

\* A part of the words that an option did not give.
LeftTo(o, p, option) ==
  IF o.value[option] # Empty /\ ~p.legacy THEN <<>> ELSE Kept(p.value[option])

Spread(o, p) ==
  Kept(p.source) \o LeftTo(o, p, "--grammar") \o LeftTo(o, p, "--translation")
    \o p.positional

LEMMA KeptIsSeq ==
  ASSUME NEW w \in Argument \cup {DefaultGrammar}
  PROVE  Kept(w) \in Seq(Argument)
BY DEF Kept

InTurn(a, b, c, d) == a \o b \o c \o d

Nested(a, b, c, d) == a \o (b \o (c \o d))

LEMMA FourParts ==
  ASSUME NEW S, NEW a \in Seq(S), NEW b \in Seq(S), NEW c \in Seq(S), NEW d \in Seq(S)
  PROVE  InTurn(a, b, c, d) = Nested(a, b, c, d)
<1> DEFINE ab == a \o b
           cd == c \o d
<1>1. ab \in Seq(S) /\ cd \in Seq(S)
  BY ConcatProperties
<1> HIDE DEF cd
<1>2. ab \o cd = a \o (b \o cd)
  BY <1>1, ConcatAssociative, SMTT(20)
<1> USE DEF cd
<1> HIDE DEF ab
<1>3. (ab \o c) \o d = ab \o cd
  BY <1>1, ConcatAssociative, SMTT(20)
<1> QED BY <1>2, <1>3 DEF ab, InTurn, Nested

LEMMA ThreeWords ==
  ASSUME NEW S, NEW a \in S, NEW b \in S, NEW c \in S
  PROVE  <<a>> \o <<b>> \o <<c>> \o <<>> = <<a, b, c>>
<1> DEFINE s == <<a>> \o <<b>> \o <<c>> \o <<>>
<1>1. s \in Seq(S) /\ Len(s) = 3
  OBVIOUS
<1>2. s[1] = a /\ s[2] = b /\ s[3] = c
  OBVIOUS
<1> HIDE DEF s
<1>3. s = <<a, b, c>>
  BY <1>1, <1>2
<1> QED BY <1>3 DEF s

LEMMA WordsOfCompile ==
  ASSUME NEW o \in Options, o.positional \in Solid, o.source = Empty, ~o.legacy,
         o.command = "compile"
  PROVE  o.positional = Spread(o, AfterTheLoop(o))
<1> DEFINE p == WithSource(o)
           q == WithFile(p, "--grammar")
           r == WithFile(q, "--translation")
           z == AfterTheLoop(o)
<1>1. /\ "--grammar" \in ValueOption /\ "--translation" \in ValueOption
      /\ "--grammar" # "--translation" /\ "compile" # Empty
  BY DEF ValueOption, Empty
<1>2. /\ p \in Options /\ p.positional \in Solid
      /\ p.value = o.value /\ p.command = o.command /\ p.legacy = o.legacy
      /\ o.positional = Kept(p.source) \o p.positional
  BY SourceTaken
<1> HIDE DEF p
<1>3. /\ q \in Options /\ q.positional \in Solid
      /\ q.value["--translation"] = p.value["--translation"]
      /\ p.value["--grammar"] # Empty => q.value["--grammar"] = p.value["--grammar"]
      /\ q.source = p.source /\ q.command = p.command /\ q.legacy = p.legacy
      /\ p.positional = Moved(p, q, "--grammar") \o q.positional
  <2>1. "--translation" \in ValueOption \ {"--grammar"}
    BY <1>1
  <2>2. \A other \in ValueOption \ {"--grammar"} : q.value[other] = p.value[other]
    BY <1>1, <1>2, FileTaken
  <2> QED BY <1>1, <1>2, <2>1, <2>2, FileTaken
<1> HIDE DEF q
<1>4. /\ r \in Options
      /\ r.value["--grammar"] = q.value["--grammar"]
      /\ r.source = q.source /\ r.command = q.command /\ r.legacy = q.legacy
      /\ q.positional = Moved(q, r, "--translation") \o r.positional
  BY <1>1, <1>3, FileTaken
<1> HIDE DEF r
<1>5. z = StandardGrammar(r)
  <2>1. CompileFiles(o) = r
    BY DEF CompileFiles, p, q, r
  <2>2. Legacy(r) = r
    BY <1>1, <1>2, <1>3, <1>4 DEF Legacy, IsLegacy
  <2> QED BY <2>1, <2>2 DEF AfterTheLoop
<1> HIDE DEF z
<1>6. /\ z.source = p.source /\ z.positional = r.positional /\ ~z.legacy
      /\ z.value["--translation"] = r.value["--translation"]
      /\ Kept(z.value["--grammar"]) = Kept(q.value["--grammar"])
  BY <1>1, <1>2, <1>3, <1>4, <1>5, StandardTaken
<1>7. /\ LeftTo(o, z, "--grammar") = Moved(p, q, "--grammar")
      /\ LeftTo(o, z, "--translation") = Moved(q, r, "--translation")
  BY <1>2, <1>3, <1>6 DEF LeftTo, Moved
<1> DEFINE A == Kept(p.source)
           B == Moved(p, q, "--grammar")
           C == Moved(q, r, "--translation")
           D == r.positional
<1>8. A \in Seq(Argument) /\ B \in Seq(Argument) /\ C \in Seq(Argument)
      /\ D \in Seq(Argument)
  <2>1. p.source \in Argument
    BY <1>2, WordsAreArguments DEF Options
  <2>2. q.value["--grammar"] \in Argument \cup {DefaultGrammar}
        /\ r.value["--translation"] \in Argument \cup {DefaultGrammar}
    BY <1>1, <1>3, <1>4 DEF Options
  <2>3. D \in Seq(Word)
    BY <1>4 DEF Options
  <2>4. <<>> \in Seq(Argument)
    OBVIOUS
  <2>5. D \in Seq(Argument)
    BY <2>3, WordsAreArguments, SeqMonotonic
  <2> QED BY <2>1, <2>2, <2>4, <2>5, KeptIsSeq DEF Moved
<1>9. o.positional = A \o (B \o (C \o D))
  BY <1>2, <1>3, <1>4
<1>10. Spread(o, z) = InTurn(A, B, C, D)
  BY <1>6, <1>7 DEF Spread, InTurn
<1> HIDE DEF A, B, C, D
<1>11. InTurn(A, B, C, D) = A \o (B \o (C \o D))
  <2>1. InTurn(A, B, C, D) = Nested(A, B, C, D)
    BY <1>8, FourParts
  <2> QED BY <2>1 DEF Nested
<1>12. o.positional = Spread(o, z)
  BY <1>9, <1>10, <1>11
<1> QED BY <1>12 DEF z

LEMMA WordsOfOthers ==
  ASSUME NEW o \in Options, o.positional \in Solid, o.source = Empty, ~o.legacy,
         o.command # "compile"
  PROVE  o.positional = Spread(o, AfterTheLoop(o))
<1> DEFINE z == AfterTheLoop(o)
<1>1. /\ "--grammar" \in ValueOption /\ "--translation" \in ValueOption
      /\ "--translation" # "--grammar"
  BY DEF ValueOption
<1>2. CompileFiles(o) = o
  BY DEF CompileFiles
<1>3. o.positional \in Seq(Word)
  BY DEF Options
<1>4. CASE z.legacy
  <2>1. LegacyShape(z, o.positional)
    BY <1>4, LegacyTaken
  <2>2. /\ o.positional = <<z.source, z.value["--grammar"], z.value["--translation"]>>
        /\ z.source # Empty /\ z.value["--grammar"] # Empty
        /\ z.value["--translation"] # Empty /\ z.positional = <<>>
    BY <2>1 DEF LegacyShape
  <2> HIDE DEF z
  <2>3. Len(o.positional) = 3 /\ o.positional[1] = z.source
        /\ o.positional[2] = z.value["--grammar"]
        /\ o.positional[3] = z.value["--translation"]
    BY <2>2
  <2>4. z.source \in Word /\ z.value["--grammar"] \in Word
        /\ z.value["--translation"] \in Word
    BY <1>3, <2>3, ElementOfSeq
  <2>5. DefaultGrammar \notin Word
    BY WordAssumption
  <2>6. /\ Kept(z.source) = <<z.source>>
        /\ LeftTo(o, z, "--grammar") = <<z.value["--grammar"]>>
        /\ LeftTo(o, z, "--translation") = <<z.value["--translation"]>>
    BY <1>4, <2>2, <2>4, <2>5 DEF Kept, LeftTo
  <2>7. Spread(o, z) =
          <<z.source>> \o <<z.value["--grammar"]>> \o <<z.value["--translation"]>>
            \o <<>>
    BY <2>2, <2>6 DEF Spread
  <2>8. o.positional = Spread(o, z)
    BY <2>2, <2>4, <2>7, ThreeWords
  <2> QED BY <2>8 DEF z
<1>5. CASE ~z.legacy
  <2>1. Legacy(o) \in Options /\ ~Legacy(o).legacy
    BY <1>2, <1>5, LegacyTyped, StandardTaken DEF AfterTheLoop
  <2>2. Legacy(o) = o
    BY <2>1 DEF Legacy, Options
  <2>3. z = StandardGrammar(o)
    BY <1>2, <2>2 DEF AfterTheLoop
  <2> HIDE DEF z
  <2>4. /\ z.source = Empty /\ z.positional = o.positional
        /\ z.value["--translation"] = o.value["--translation"]
        /\ Kept(z.value["--grammar"]) = Kept(o.value["--grammar"])
    BY <1>1, <2>3, StandardTaken
  <2>5. /\ Kept(z.source) = <<>> /\ LeftTo(o, z, "--grammar") = <<>>
        /\ LeftTo(o, z, "--translation") = <<>>
    BY <1>5, <2>4 DEF Kept, LeftTo
  <2>6. Spread(o, z) = <<>> \o <<>> \o <<>> \o o.positional
    BY <2>4, <2>5 DEF Spread
  <2>7. <<>> \o <<>> = <<>>
    OBVIOUS
  <2>8. o.positional = Spread(o, z)
    BY <1>3, <2>6, <2>7, ConcatEmptySeq
  <2> QED BY <2>8 DEF z
<1> QED BY <1>4, <1>5
-----------------------------------------------------------------------------
(* The reading of a command line *)

SolidArguments == \A k \in Starts : argv[k] # Empty

\* What is true of the options once the last argument is read.
AllRead ==
  /\ EveryWordIsPlaced
  /\ opts.error = Empty /\ ~opts.legacy =>
       \A option \in Overridable :
         Given(option) # Empty => opts.value[option] = Given(option)
  /\ opts.legacy =>
       LegacyShape(opts, Words) /\ (SolidArguments => Words \in Solid)

ReadSoFar ==
  /\ AtStart(i) /\ ValuesAt(i, opts.value) /\ WordsAt(i, opts.positional)
  /\ opts.source = Empty /\ ~opts.legacy /\ opts.error = Empty

ReadingInv == ReadingTyped /\ (reading => ReadSoFar) /\ (~reading => AllRead)

LEMMA SolidFromArguments ==
  ASSUME argv \in Seq(Argument), NEW n, NEW words, WordsAt(n, words), SolidArguments
  PROVE  words \in Solid
<1>1. ASSUME NEW k \in 1 .. Len(words)
      PROVE  words[k] # Empty
  <2>1. PICK l \in WordStarts : l < n /\ Rank(l) = k
    BY DEF WordsAt
  <2>2. words[Rank(l)] = argv[l] /\ argv[l] # Empty
    BY <2>1 DEF WordsAt, WordStarts, SolidArguments
  <2> QED BY <2>1, <2>2
<1> QED BY <1>1 DEF WordsAt, Solid

\* Only the arguments matter.
LEMMA SameArguments ==
  ASSUME argv' = argv
  PROVE  /\ Starts' = Starts /\ Words' = Words /\ (SolidArguments' <=> SolidArguments)
         /\ \A option : Given(option)' = Given(option)
<1>1. Starts' = Starts
  BY DEF Starts
<1>2. Words' = Words
  BY <1>1 DEF Words
<1>3. \A option : Given(option)' = Given(option)
  BY <1>1 DEF Given
<1> QED BY <1>1, <1>2, <1>3 DEF SolidArguments

LEMMA SameSoFar ==
  ASSUME argv' = argv, AtStart(i'), ValuesAt(i', opts'.value),
         WordsAt(i', opts'.positional), opts'.source = Empty, ~opts'.legacy,
         opts'.error = Empty
  PROVE  ReadSoFar'
<1>1. Starts' = Starts
  BY SameArguments
<1>2. AtStart(i)'
  BY <1>1 DEF AtStart
<1>3. \A option, n : Uses(option, n)' = Uses(option, n)
  BY <1>1 DEF Uses
<1>4. ValuesAt(i, opts.value)'
  BY <1>3 DEF ValuesAt
<1>5. WordStarts' = WordStarts /\ \A l : Rank(l)' = Rank(l)
  BY <1>1 DEF WordStarts, Rank
<1>6. WordsAt(i, opts.positional)'
  BY <1>5 DEF WordsAt
<1> QED BY <1>2, <1>4, <1>6 DEF ReadSoFar

\* Neither an option with a value nor a word.
LEMMA OtherTaken ==
  ASSUME ReadingInv, reading, i \in 1 .. Len(argv), Arg \notin ValueOption \cup Word,
         argv' = argv, i' = i + 1, opts' \in Options, opts'.value = opts.value,
         opts'.positional = opts.positional, opts'.source = opts.source,
         opts'.legacy = opts.legacy, opts'.error = opts.error
  PROVE  ReadSoFar'
<1>1. ReadSoFar /\ argv \in Seq(Argument) /\ i \in Starts
  BY DEF ReadingInv, ReadingTyped, ReadSoFar, AtStart
<1>2. AtStart(i + 1)
  BY <1>1, NextStart DEF Arg
<1>3. ValuesAt(i + 1, opts.value)
  BY <1>1, ValuesKept DEF ReadSoFar, Arg
<1>4. i \notin WordStarts
  BY DEF WordStarts, Arg
<1>5. WordsAt(i + 1, opts.positional)
  BY <1>1, <1>4, WordsKept DEF ReadSoFar
<1> QED BY <1>1, <1>2, <1>3, <1>5, SameSoFar DEF ReadSoFar

LEMMA ValueTaken ==
  ASSUME ReadingInv, TakeValue
  PROVE  ReadSoFar'
<1>1. /\ ReadSoFar /\ argv \in Seq(Argument)
      /\ i \in 1 .. Len(argv) /\ i + 1 \in 1 .. Len(argv)
      /\ Arg \in ValueOption /\ opts \in Options
  BY DEF TakeValue, Reads, ReadingInv, ReadingTyped
<1>2. i \in Starts
  BY <1>1 DEF ReadSoFar, AtStart
<1>3. i + 1 \notin Starts /\ AtStart(i + 2)
  BY <1>1, <1>2, NextStart DEF Arg
<1>4. /\ argv' = argv /\ i' = i + 2
      /\ opts'.value = [opts.value EXCEPT ![argv[i]] = argv[i + 1]]
      /\ opts'.positional = opts.positional /\ opts'.source = opts.source
      /\ opts'.legacy = opts.legacy /\ opts'.error = opts.error
  BY <1>1 DEF TakeValue, Options, Arg
<1>5. ValuesAt(i + 2, opts'.value)
  <2>1. DOMAIN opts.value = ValueOption
    BY <1>1 DEF Options
  <2>2. ValuesAt(i + 2, [opts.value EXCEPT ![argv[i]] = argv[i + 1]])
    BY <1>1, <1>2, <2>1, ValuesTaken DEF ReadSoFar, Arg
  <2> QED BY <1>4, <2>2
<1>6. WordsAt(i + 2, opts.positional)
  <2>1. i \notin WordStarts /\ i + 1 \notin WordStarts
    BY <1>1, <1>3, KindsAreDisjoint DEF WordStarts, Arg
  <2>2. WordsAt(i + 1, opts.positional)
    BY <1>1, <2>1, WordsKept DEF ReadSoFar
  <2>3. WordsAt((i + 1) + 1, opts.positional)
    BY <1>1, <2>1, <2>2, WordsKept
  <2>4. (i + 1) + 1 = i + 2
    BY <1>1
  <2> QED BY <2>3, <2>4
<1> QED BY <1>1, <1>3, <1>4, <1>5, <1>6, SameSoFar DEF ReadSoFar

LEMMA WordTaken ==
  ASSUME ReadingInv, TakePositional
  PROVE  ReadSoFar'
<1>1. /\ ReadSoFar /\ argv \in Seq(Argument) /\ i \in 1 .. Len(argv) /\ Arg \in Word
      /\ opts \in Options
  BY DEF TakePositional, Reads, ReadingInv, ReadingTyped
<1>2. i \in Starts
  BY <1>1 DEF ReadSoFar, AtStart
<1>3. Arg \notin ValueOption /\ AtStart(i + 1)
  BY <1>1, <1>2, KindsAreDisjoint, NextStart DEF Arg
<1>4. /\ argv' = argv /\ i' = i + 1 /\ opts'.value = opts.value
      /\ opts'.positional = Append(opts.positional, argv[i])
      /\ opts'.source = opts.source
      /\ opts'.legacy = opts.legacy /\ opts'.error = opts.error
  BY <1>1 DEF TakePositional, Options, Arg
<1>5. ValuesAt(i + 1, opts.value)
  BY <1>1, <1>3, ValuesKept DEF ReadSoFar, Arg
<1>6. i \in WordStarts
  BY <1>1, <1>2 DEF WordStarts, Arg
<1>7. WordsAt(i + 1, opts'.positional)
  BY <1>1, <1>4, <1>6, WordsTaken DEF ReadSoFar
<1> QED BY <1>1, <1>3, <1>4, <1>5, <1>7, SameSoFar DEF ReadSoFar

LEMMA LoopKeeps ==
  ASSUME ReadingInv, TakeFlag \/ TakeValue \/ TakeCommand \/ TakePositional
  PROVE  ReadingInv'
<1>1. ReadingTyped' /\ reading /\ reading' = reading
  BY ReadingStaysTyped DEF ReadingInv, ReadArguments, TakeFlag, TakeValue,
     TakeCommand, TakePositional, Reads
<1>2. CASE TakeFlag
  <2>1. i \in 1 .. Len(argv) /\ Arg \in Flag /\ opts \in Options
    BY <1>2 DEF TakeFlag, Reads, ReadingInv, ReadingTyped
  <2>2. /\ argv' = argv /\ i' = i + 1 /\ opts'.value = opts.value
        /\ opts'.positional = opts.positional /\ opts'.source = opts.source
        /\ opts'.legacy = opts.legacy /\ opts'.error = opts.error
    BY <1>2, <2>1 DEF TakeFlag, Options
  <2>3. Arg \notin ValueOption \cup Word
    BY <2>1, KindsAreDisjoint
  <2>4. opts' \in Options
    BY <1>1 DEF ReadingTyped
  <2>5. ReadSoFar'
    BY <1>1, <2>1, <2>2, <2>3, <2>4, OtherTaken
  <2> QED BY <1>1, <2>5 DEF ReadingInv
<1>3. CASE TakeCommand
  <2>1. i \in 1 .. Len(argv) /\ Arg \in Command /\ opts \in Options
    BY <1>3 DEF TakeCommand, Reads, ReadingInv, ReadingTyped
  <2>2. /\ argv' = argv /\ i' = i + 1 /\ opts'.value = opts.value
        /\ opts'.positional = opts.positional /\ opts'.source = opts.source
        /\ opts'.legacy = opts.legacy /\ opts'.error = opts.error
    BY <1>3, <2>1 DEF TakeCommand, Options
  <2>3. Arg \notin ValueOption \cup Word
    BY <2>1, KindsAreDisjoint
  <2>4. opts' \in Options
    BY <1>1 DEF ReadingTyped
  <2>5. ReadSoFar'
    BY <1>1, <2>1, <2>2, <2>3, <2>4, OtherTaken
  <2> QED BY <1>1, <2>5 DEF ReadingInv
<1>4. CASE TakeValue
  BY <1>1, <1>4, ValueTaken DEF ReadingInv
<1>5. CASE TakePositional
  BY <1>1, <1>5, WordTaken DEF ReadingInv
<1> QED BY <1>2, <1>3, <1>4, <1>5

LEMMA RejectionsKeep ==
  ASSUME ReadingInv, MissingValue \/ UnknownOption
  PROVE  ReadingInv'
<1>1. ReadingTyped'
  BY ReadingStaysTyped DEF ReadingInv, ReadArguments
<1>2. reading /\ ~reading' /\ opts \in Options /\ ReadSoFar
  BY DEF MissingValue, UnknownOption, Reads, Reject, ReadingInv, ReadingTyped
<1>3. opts'.error # Empty /\ opts'.legacy = opts.legacy
  BY <1>2 DEF MissingValue, UnknownOption, Reject, Options, Empty
<1>4. AllRead'
  BY <1>2, <1>3 DEF AllRead, EveryWordIsPlaced, ReadSoFar
<1> QED BY <1>1, <1>2, <1>4 DEF ReadingInv

LEMMA EndKeeps ==
  ASSUME ReadingInv, EndOfArguments
  PROVE  ReadingInv'
<1>1. ReadingTyped'
  BY ReadingStaysTyped DEF ReadingInv, ReadArguments
<1>2. /\ reading /\ ~reading' /\ opts \in Options /\ ReadSoFar
      /\ opts' = AfterTheLoop(opts) /\ argv' = argv /\ argv \in Seq(Argument)
      /\ i = Len(argv) + 1
  BY DEF EndOfArguments, ReadingInv, ReadingTyped, AfterTheLoop
<1>3. Words = opts.positional /\ Words' = opts.positional
  BY <1>2, AllWords, SameArguments DEF ReadSoFar
<1>4. ASSUME NEW option \in ValueOption
      PROVE  opts.value[option] = Given(option)' /\ Given(option) = Given(option)'
  BY <1>2, AllValues, SameArguments DEF ReadSoFar
<1>5. Overridable \subseteq ValueOption
  BY DEF Overridable, ValueOption
<1>6. EveryWordIsPlaced'
  <2>1. SUFFICES ASSUME SolidArguments'
        PROVE  Words' = Spread(opts, opts')
    <3>1. LeftTo(opts, opts', "--grammar") = Placed("--grammar")'
      BY <1>4, <1>5 DEF LeftTo, Placed, Overridable
    <3>2. LeftTo(opts, opts', "--translation") = Placed("--translation")'
      BY <1>4, <1>5 DEF LeftTo, Placed, Overridable
    <3> QED BY <3>1, <3>2 DEF EveryWordIsPlaced, SolidArguments, Spread
  <2>2. opts.positional \in Solid
    BY <1>2, <2>1, SolidFromArguments, SameArguments DEF ReadSoFar
  <2>3. CASE opts.command = "compile"
    BY <1>2, <1>3, <2>2, <2>3, WordsOfCompile DEF ReadSoFar
  <2>4. CASE opts.command # "compile"
    BY <1>2, <1>3, <2>2, <2>4, WordsOfOthers DEF ReadSoFar
  <2> QED BY <2>3, <2>4
<1>7. ASSUME ~opts'.legacy, NEW option \in Overridable, Given(option)' # Empty
      PROVE  opts'.value[option] = Given(option)'
  BY <1>2, <1>4, <1>5, <1>7, ValuesStay DEF ReadSoFar
<1>8. opts'.legacy => LegacyShape(opts', Words')
  BY <1>2, <1>3, LegacyTaken DEF ReadSoFar
<1>9. SolidArguments' => Words' \in Solid
  BY <1>2, <1>3, SolidFromArguments, SameArguments DEF ReadSoFar
<1>10. AllRead'
  BY <1>6, <1>7, <1>8, <1>9 DEF AllRead, LegacyShape
<1> QED BY <1>1, <1>2, <1>10 DEF ReadingInv

LEMMA ReadingKeeps ==
  ASSUME ReadingInv, [ReadArguments]_parserVars
  PROVE  ReadingInv'
<1>1. CASE UNCHANGED parserVars
  <2>1. argv' = argv /\ i' = i /\ reading' = reading /\ opts' = opts
    BY <1>1 DEF parserVars
  <2>2. ReadingTyped'
    BY <1>1, ReadingStaysTyped DEF ReadingInv
  <2>3. ReadSoFar => ReadSoFar'
    BY <2>1, SameSoFar DEF ReadSoFar
  <2>4. Words' = Words /\ (SolidArguments' <=> SolidArguments)
        /\ \A option : Given(option)' = Given(option)
    BY <2>1, SameArguments
  <2>5. \A option : Placed(option)' = Placed(option)
    BY <2>1, <2>4 DEF Placed, Kept
  <2>6. EveryWordIsPlaced => EveryWordIsPlaced'
    BY <2>1, <2>4, <2>5 DEF EveryWordIsPlaced, SolidArguments, Kept
  <2>7. AllRead => AllRead'
    BY <2>1, <2>4, <2>6 DEF AllRead, LegacyShape
  <2> QED BY <2>1, <2>2, <2>3, <2>7 DEF ReadingInv
<1>2. CASE ReadArguments
  BY <1>2, LoopKeeps, RejectionsKeep, EndKeeps DEF ReadArguments
<1> QED BY <1>1, <1>2

LEMMA ReadingStarts == ParserInit => ReadingInv
<1> SUFFICES ASSUME ParserInit PROVE ReadingInv
  OBVIOUS
<1>1. argv \in Seq(Argument) /\ i = 1 /\ reading = TRUE /\ opts = NoOptions
  BY WordAssumption DEF ParserInit
<1>2. Starts \subseteq 1 .. Len(argv) /\ Len(argv) \in Nat
  BY <1>1, StartsAre, LenProperties
<1>3. NoOptions \in Options
  BY WordAssumption, WordsAreArguments DEF NoOptions, Options, Errors
<1>4. AtStart(1)
  BY <1>1, <1>2, StartsAre DEF AtStart
<1>5. ASSUME NEW option \in ValueOption
      PROVE  Uses(option, 1) = {} /\ NoOptions.value[option] = Empty
  <2>1. \A k \in Starts : ~(k < 1)
    BY <1>2
  <2> QED BY <2>1 DEF Uses, NoOptions
<1>6. ValuesAt(1, NoOptions.value)
  BY <1>5 DEF ValuesAt
<1>7. WordsAt(1, <<>>)
  <2>1. Rank(1 - 1) = 0
    BY <1>1, Ranking
  <2>2. \A l \in WordStarts : ~(l < 1)
    BY <1>2 DEF WordStarts
  <2> QED BY <2>1, <2>2 DEF WordsAt
<1>8. ReadSoFar
  BY <1>1, <1>4, <1>6, <1>7 DEF ReadSoFar, NoOptions
<1> QED BY <1>1, <1>2, <1>3, <1>8 DEF ReadingInv, ReadingTyped
-----------------------------------------------------------------------------
(* The files of a run *)

Nothing == [source |-> NoPath, grammar |-> NoPath, translation |-> NoPath,
            language |-> Empty, output |-> Empty]

\* The part of TypeOK that is not about the arguments.
RunTyped ==
  /\ selftest \in BOOLEAN
  /\ pc \in Phases \cup {"arguments", "start", "lex", "generate", "write",
                         "return", "ended"}
  /\ mode \in Modes \cup {NoMode}
  /\ used \in [source : Path, grammar : Path, translation : Path,
               language : Argument, output : Argument]
  /\ passed \subseteq Phases \cup Sample \cup {"lex", "generate"}
  /\ temp \in BOOLEAN
  /\ output \in {"old", "code", "part"}
  /\ exit \in {NoExit, Crash, 0, 1, 2}

\* How main() came to its mode.
ModeChosen ==
  /\ pc = "arguments" <=> mode = NoMode
  /\ pc # "arguments" => ~reading
  /\ mode # NoMode /\ opts.error # Empty => mode = "refuse"
  /\ mode # "legacy"
  /\ opts.legacy => mode \in {NoMode, "refuse", "inform", "compile"}

\* How the compiler came to its files.
FilesChosen ==
  /\ pc \in {"arguments", "start"} \/ mode \in {"refuse", "inform"} => used = Nothing
  /\ used.grammar # NoPath /\ opts.value["--grammar"] # Empty =>
       used.grammar.name = opts.value["--grammar"]
  /\ used.translation # NoPath /\ opts.value["--translation"] # Empty =>
       used.translation.name = opts.value["--translation"]
  /\ mode = "compile" /\ used.source # NoPath =>
       /\ used.grammar # NoPath /\ used.translation # NoPath
       /\ opts.source # Empty => used.source.name = opts.source

Chosen == ModeChosen /\ FilesChosen

RunInv == ReadingInv /\ RunTyped /\ Chosen

FileName == Argument \cup {DefaultGrammar, DefaultTranslation,
                           "examples/test_source.c",
                           "examples/grammar_rules.txt",
                           "istudio-stdin-src.ipl"}

LEMMA PathIs == Path = [at : Places, name : FileName]
BY DEF Path, FileName

LEMMA SomePath ==
  ASSUME NEW at \in Places \ {"nowhere"}, NEW name \in FileName
  PROVE  LET path == [at |-> at, name |-> name]
         IN  path \in Path /\ path # NoPath /\ path.name = name
BY PathIs DEF NoPath

LEMMA ResolvedPath ==
  ASSUME NEW name \in FileName, NEW path \in Resolved(name)
  PROVE  path \in Path /\ path # NoPath /\ path.name = name
BY PathIs DEF Resolved, NoPath, Places

\* An option overrides a default ...
LEMMA ChoicePath ==
  ASSUME opts \in Options, NEW option \in ValueOption, NEW default \in FileName,
         NEW path \in Choice(option, default)
  PROVE  /\ path \in Path /\ path # NoPath
         /\ opts.value[option] # Empty => path.name = opts.value[option]
<1>1. opts.value[option] \in FileName
  BY DEF Options, FileName
<1> QED BY <1>1, ResolvedPath DEF Choice

LEMMA ManifestPathTyped ==
  ASSUME NEW entries \in Manifests, NEW key
  PROVE  ManifestPath(entries, key) \in Path
<1> DEFINE at == {k \in DOMAIN entries : entries[k][1] = key}
           c == CHOOSE k \in at : \A l \in at : l <= k
<1>1. entries \in Seq({"source", "grammar", "translation"} \X Word)
  BY DriverAssumption
<1>2. DOMAIN entries = 1 .. Len(entries) /\ Len(entries) \in Nat
  BY <1>1, LenProperties
<1>3. CASE at = {}
  <2>1. ManifestPath(entries, key) = NoPath
    BY <1>3 DEF ManifestPath
  <2>2. NoPath \in Path
    BY WordAssumption, WordsAreArguments, PathIs DEF NoPath, Places, FileName
  <2> QED BY <2>1, <2>2
<1>4. CASE at # {}
  <2>1. at \subseteq 0 .. Len(entries)
    <3>1. 1 .. Len(entries) \subseteq 0 .. Len(entries) /\ at \subseteq DOMAIN entries
      BY <1>2
    <3> QED BY <1>2, <3>1
  <2>2. \E k \in at : \A l \in at : l <= k
    <3> HIDE DEF at
    <3> QED BY <1>2, <1>4, <2>1, GreatestNumber
  <2>3. c \in 1 .. Len(entries)
    BY <1>2, <2>2
  <2>4. entries[c] \in {"source", "grammar", "translation"} \X Word
    BY <1>1, <2>3, ElementOfSeq
  <2>5. entries[c][2] \in FileName
    BY <2>4, WordsAreArguments DEF FileName
  <2>6. ManifestPath(entries, key) =
          [at |-> IF entries[c][2] \in Absolute THEN "root" ELSE "manifest",
           name |-> entries[c][2]]
    BY <1>4 DEF ManifestPath
  <2> HIDE DEF c
  <2> QED BY <2>5, <2>6, PathIs DEF Places
<1> QED BY <1>3, <1>4

\* ... and a manifest.
LEMMA ManifestChoicePath ==
  ASSUME opts \in Options, NEW option \in ValueOption, NEW default \in FileName,
         NEW entries \in Manifests, NEW key,
         NEW path \in ManifestChoice(entries, key, option, default)
  PROVE  /\ path \in Path /\ path # NoPath
         /\ opts.value[option] # Empty => path.name = opts.value[option]
<1>1. opts.value[option] \in FileName
  BY DEF Options, FileName
<1>2. CASE opts.value[option] # Empty
  BY <1>1, <1>2, ResolvedPath DEF ManifestChoice
<1>3. CASE opts.value[option] = Empty /\ ManifestPath(entries, key) # NoPath
  BY <1>3, ManifestPathTyped DEF ManifestChoice
<1>4. CASE opts.value[option] = Empty /\ ManifestPath(entries, key) = NoPath
  BY <1>4, ResolvedPath DEF ManifestChoice
<1> QED BY <1>2, <1>3, <1>4
-----------------------------------------------------------------------------
(* One step of a run *)

LEMMA SameOptions ==
  ASSUME RunInv, UNCHANGED parserVars
  PROVE  ReadingInv' /\ opts' = opts /\ reading' = reading /\ opts \in Options
BY ReadingKeeps DEF RunInv, ReadingInv, ReadingTyped, parserVars

LEMMA ArgumentsRead ==
  ASSUME RunInv, ReadsArguments
  PROVE  RunInv'
<1>1. pc = "arguments" /\ UNCHANGED driverVars /\ ReadingInv'
  BY ReadingKeeps DEF ReadsArguments, RunInv
<1>2. RunTyped'
  BY <1>1 DEF driverVars, RunInv, RunTyped
<1>3. mode = NoMode /\ mode' = NoMode /\ used = Nothing /\ used' = Nothing
      /\ pc' = "arguments"
  BY <1>1 DEF driverVars, RunInv, Chosen, ModeChosen, FilesChosen
<1>4. ModeChosen'
  BY <1>3 DEF ModeChosen, NoMode
<1>5. FilesChosen'
  BY <1>3 DEF FilesChosen, Nothing, NoMode
<1> QED BY <1>1, <1>2, <1>4, <1>5 DEF RunInv, Chosen

LEMMA ModeOf ==
  ASSUME Dispatch
  PROVE  /\ mode' \in Modes
         /\ mode' = "legacy" => opts.legacy /\ opts.command # "compile"
         /\ opts.error # Empty => mode' = "refuse"
         /\ opts.command = "compile" /\ opts.error = Empty
              /\ opts.flags \cap {"--demo", "--stdin", "--lex-ipl-samples"} = {}
              => mode' \in {"inform", "compile"}
<1>1. PICK n \in DOMAIN Branches :
        /\ Branches[n][1] /\ \A m \in 1 .. n - 1 : ~Branches[m][1]
        /\ mode' = Branches[n][2]
  BY DEF Dispatch
<1>2. n \in 1 .. 11
  BY DEF Branches
<1>3. ASSUME NEW m \in 1 .. 11, m < n
      PROVE  ~Branches[m][1]
  BY <1>1, <1>2, <1>3
<1>4. /\ Branches[1][1] <=> opts.error # Empty
      /\ Branches[3][1] <=> "--help" \in opts.flags
      /\ Branches[4][1] <=> "--lex-ipl-samples" \in opts.flags
                             \/ opts.command = "lex-samples"
      /\ Branches[5][1] <=> "--demo" \in opts.flags
      /\ Branches[6][1] <=> "--stdin" \in opts.flags
      /\ Branches[7][1] <=> opts.command = "run"
      /\ Branches[8][1] <=> opts.command = "compile"
      /\ Branches[10][1] <=> opts.legacy
  BY DEF Branches
<1>5. /\ Branches[1][2] = "refuse" /\ Branches[2][2] = "inform"
      /\ Branches[3][2] = "inform" /\ Branches[4][2] = "lex-samples"
      /\ Branches[5][2] = "demo" /\ Branches[6][2] = "stdin"
      /\ Branches[7][2] = "run" /\ Branches[8][2] = "compile"
      /\ Branches[9][2] = "selftest" /\ Branches[10][2] = "legacy"
      /\ Branches[11][2] = "refuse"
  BY DEF Branches
<1>6. opts.error # Empty => n = 1
  <2>1. 1 < n => opts.error = Empty
    BY <1>3, <1>4
  <2> QED BY <1>2, <2>1
<1>7. opts.command = "compile" => n <= 8
  <2>1. 8 < n => opts.command # "compile"
    BY <1>3, <1>4
  <2> QED BY <1>2, <2>1
<1>8. mode' \in Modes /\ (mode' = "legacy" => n = 10)
  BY <1>1, <1>2, <1>5 DEF Modes
<1>9. n = 10 => opts.legacy
  BY <1>1, <1>4
<1>10. ASSUME opts.command = "compile", opts.error = Empty,
              opts.flags \cap {"--demo", "--stdin", "--lex-ipl-samples"} = {}
       PROVE  mode' \in {"inform", "compile"}
  <2>1. n # 1 /\ n # 4 /\ n # 5 /\ n # 6 /\ n # 7
    BY <1>1, <1>4, <1>10
  <2>2. n = 2 \/ n = 3 \/ n = 8
    BY <1>2, <1>7, <1>10, <2>1
  <2> QED BY <1>1, <1>5, <2>2
<1>11. opts.error # Empty => mode' = "refuse"
  BY <1>1, <1>5, <1>6
<1>12. mode' = "legacy" => opts.command # "compile"
  BY <1>2, <1>7, <1>8
<1> QED BY <1>8, <1>9, <1>10, <1>11, <1>12

LEMMA DispatchKeeps ==
  ASSUME RunInv, Dispatch
  PROVE  RunInv'
<1>1. /\ pc = "arguments" /\ pc' = "start" /\ ~reading /\ UNCHANGED parserVars
      /\ used' = used /\ selftest' = selftest /\ passed' = passed /\ temp' = temp
      /\ output' = output /\ exit' = exit
  BY DEF Dispatch
<1>2. ReadingInv' /\ opts' = opts /\ reading' = reading
  BY <1>1, SameOptions
<1>3. opts.legacy => LegacyShape(opts, Words)
  BY <1>1 DEF RunInv, ReadingInv, AllRead
<1>4. opts.legacy =>
        /\ opts.command = "compile"
        /\ opts.flags \cap {"--demo", "--stdin", "--lex-ipl-samples"} = {}
  BY <1>3 DEF LegacyShape
<1>5. mode' \in Modes /\ mode' # "legacy"
      /\ (opts.legacy => mode' \in {"refuse", "inform", "compile"})
      /\ (opts.error # Empty => mode' = "refuse")
  BY <1>4, ModeOf
<1>6. mode' # NoMode
  BY <1>5 DEF Modes, NoMode
<1>7. used' = Nothing
  BY <1>1 DEF RunInv, Chosen, FilesChosen
<1>8. RunTyped'
  BY <1>1, <1>5 DEF RunInv, RunTyped
<1>9. ModeChosen'
  BY <1>1, <1>2, <1>5, <1>6 DEF ModeChosen
<1>10. FilesChosen'
  BY <1>7 DEF FilesChosen, Nothing
<1> QED BY <1>2, <1>8, <1>9, <1>10 DEF RunInv, Chosen

\* Steps that choose nothing.
LEMMA ChoiceStays ==
  ASSUME RunInv, UNCHANGED <<parserVars, used, mode>>, pc # "arguments",
         pc' \notin {"arguments", "start"}, RunTyped'
  PROVE  RunInv'
<1>1. ReadingInv' /\ opts' = opts /\ reading' = reading
  BY SameOptions
<1>2. ModeChosen'
  BY <1>1 DEF RunInv, Chosen, ModeChosen
<1>3. FilesChosen'
  BY <1>1 DEF RunInv, Chosen, FilesChosen
<1> QED BY <1>1, <1>2, <1>3 DEF RunInv, Chosen

LEMMA EndingModesKeep ==
  ASSUME RunInv, Inform \/ Refuse \/ DemoMissing \/ SelfTest
  PROVE  RunInv'
<1>1. /\ UNCHANGED <<parserVars, used, mode>> /\ pc = "start"
      /\ pc' \in {"ended", "stdlib"}
      /\ UNCHANGED <<selftest, passed, temp, output>>
      /\ exit' = exit \/ exit' \in {0, 1, 2}
  BY DEF Inform, Refuse, DemoMissing, SelfTest, In, Exit
<1>2. RunTyped'
  BY <1>1 DEF RunInv, RunTyped, Phases
<1> QED BY <1>1, <1>2, ChoiceStays

LEMMA LexSamplesKeeps ==
  ASSUME RunInv, LexSamples
  PROVE  RunInv'
<1>1. PICK grammar \in Choice("--grammar", DefaultGrammar), readable \in SUBSET Sample :
        /\ used' = [used EXCEPT !.grammar = grammar]
        /\ passed' = passed \cup readable
        /\ Exit(IF readable = Sample THEN 0 ELSE 1)
  BY DEF LexSamples
<1>2. /\ pc = "start" /\ mode = "lex-samples" /\ pc' = "ended" /\ exit' \in {0, 1}
      /\ UNCHANGED <<parserVars, selftest, mode, temp, output>>
  BY <1>1 DEF LexSamples, In, Exit
<1>3. ReadingInv' /\ opts' = opts /\ reading' = reading /\ opts \in Options
  BY <1>2, SameOptions
<1>4. "--grammar" \in ValueOption /\ DefaultGrammar \in FileName
  BY DEF ValueOption, FileName
<1>5. /\ grammar \in Path
      /\ opts.value["--grammar"] # Empty => grammar.name = opts.value["--grammar"]
  BY <1>3, <1>4, ChoicePath
<1>6. used = Nothing
  BY <1>2 DEF RunInv, Chosen, FilesChosen
<1>7. used'.grammar = grammar /\ used'.translation = NoPath
  BY <1>1, <1>6 DEF Nothing
<1>8. RunTyped'
  BY <1>1, <1>2, <1>5 DEF RunInv, RunTyped
<1>9. ModeChosen'
  BY <1>2, <1>3 DEF RunInv, Chosen, ModeChosen
<1>10. FilesChosen'
  BY <1>2, <1>3, <1>5, <1>7 DEF FilesChosen
<1> QED BY <1>3, <1>8, <1>9, <1>10 DEF RunInv, Chosen

LEMMA CompileWithKeeps ==
  ASSUME RunInv, pc = "start", mode \in {"demo", "stdin", "run", "compile"},
         temp' \in BOOLEAN,
         NEW source \in Path, NEW grammar \in Path, NEW translation \in Path,
         NEW language \in Argument, NEW file \in Argument,
         CompileWith(source, grammar, translation, language, file),
         grammar # NoPath, translation # NoPath,
         opts.value["--grammar"] # Empty => grammar.name = opts.value["--grammar"],
         opts.value["--translation"] # Empty =>
           translation.name = opts.value["--translation"],
         mode = "compile" /\ opts.source # Empty => source.name = opts.source
  PROVE  RunInv'
<1>1. /\ pc' = "source" /\ UNCHANGED <<parserVars, selftest, mode, passed, output, exit>>
      /\ used' = [source |-> source, grammar |-> grammar,
                  translation |-> translation, language |-> language,
                  output |-> file]
  BY DEF CompileWith
<1>2. ReadingInv' /\ opts' = opts /\ reading' = reading
  BY <1>1, SameOptions
<1>3. RunTyped'
  BY <1>1 DEF RunInv, RunTyped, Phases
<1>4. ModeChosen'
  BY <1>1, <1>2 DEF RunInv, Chosen, ModeChosen
<1>5. /\ used'.source = source /\ used'.grammar = grammar
      /\ used'.translation = translation
  BY <1>1
<1>6. FilesChosen'
  BY <1>1, <1>2, <1>5 DEF FilesChosen
<1> QED BY <1>2, <1>3, <1>4, <1>6 DEF RunInv, Chosen

LEMMA FileOptions ==
  /\ "--grammar" \in ValueOption /\ "--translation" \in ValueOption
  /\ "--target" \in ValueOption \ {"--grammar"}
  /\ "--output" \in ValueOption \ {"--grammar"}
  /\ {DefaultGrammar, DefaultTranslation, "examples/test_source.c",
      "examples/grammar_rules.txt", "istudio-stdin-src.ipl"} \subseteq FileName
  /\ Argument \subseteq FileName /\ Empty \in Argument
BY WordAssumption, WordsAreArguments DEF ValueOption, FileName

LEMMA CompilingModesKeep ==
  ASSUME RunInv, Demo \/ Stdin \/ Run \/ Compile
  PROVE  RunInv'
<1>1. opts \in Options /\ temp \in BOOLEAN
  BY DEF RunInv, ReadingInv, ReadingTyped, RunTyped
<1>2. CASE Demo
  <2>1. pc = "start" /\ mode = "demo" /\ temp' = temp
    BY <1>2 DEF Demo, In
  <2>2. PICK source \in Resolved("examples/test_source.c"),
             grammar \in Choice("--grammar", "examples/grammar_rules.txt"),
             translation \in Choice("--translation", DefaultTranslation) :
          CompileWith(source, grammar, translation, Empty, Empty)
    BY <1>2 DEF Demo
  <2>3. source \in Path
    BY FileOptions, ResolvedPath
  <2>4. /\ grammar \in Path /\ grammar # NoPath
        /\ opts.value["--grammar"] # Empty => grammar.name = opts.value["--grammar"]
    BY <1>1, FileOptions, ChoicePath
  <2>5. /\ translation \in Path /\ translation # NoPath
        /\ opts.value["--translation"] # Empty =>
             translation.name = opts.value["--translation"]
    BY <1>1, FileOptions, ChoicePath
  <2> QED BY <1>1, <2>1, <2>2, <2>3, <2>4, <2>5, FileOptions, CompileWithKeeps
<1>3. CASE Stdin
  <2>1. pc = "start" /\ mode = "stdin" /\ temp' = TRUE
    BY <1>3 DEF Stdin, In
  <2> DEFINE source == [at |-> "temp", name |-> "istudio-stdin-src.ipl"]
  <2>2. PICK grammar \in Choice("--grammar", DefaultGrammar),
             translation \in Choice("--translation", DefaultTranslation) :
          CompileWith(source, grammar, translation, Empty, Empty)
    BY <1>3 DEF Stdin
  <2>3. source \in Path
    BY FileOptions, SomePath DEF Places
  <2> HIDE DEF source
  <2>4. /\ grammar \in Path /\ grammar # NoPath
        /\ opts.value["--grammar"] # Empty => grammar.name = opts.value["--grammar"]
    BY <1>1, FileOptions, ChoicePath
  <2>5. /\ translation \in Path /\ translation # NoPath
        /\ opts.value["--translation"] # Empty =>
             translation.name = opts.value["--translation"]
    BY <1>1, FileOptions, ChoicePath
  <2> QED BY <2>1, <2>2, <2>3, <2>4, <2>5, FileOptions, CompileWithKeeps
<1>4. CASE Run
  <2>1. pc = "start" /\ mode = "run" /\ temp' = temp
    BY <1>4 DEF Run, In
  <2>2. PICK entries \in Manifests :
          \E grammar \in ManifestChoice(entries, "grammar", "--grammar",
                                        DefaultGrammar),
             translation \in ManifestChoice(entries, "translation",
                                            "--translation", DefaultTranslation) :
            CompileWith(ManifestPath(entries, "source"), grammar, translation,
                        Empty, Empty)
    BY <1>4 DEF Run
  <2>3. PICK grammar \in ManifestChoice(entries, "grammar", "--grammar",
                                        DefaultGrammar),
             translation \in ManifestChoice(entries, "translation",
                                            "--translation", DefaultTranslation) :
          CompileWith(ManifestPath(entries, "source"), grammar, translation,
                      Empty, Empty)
    BY <2>2
  <2>4. ManifestPath(entries, "source") \in Path
    BY ManifestPathTyped
  <2>5. /\ grammar \in Path /\ grammar # NoPath
        /\ opts.value["--grammar"] # Empty => grammar.name = opts.value["--grammar"]
    BY <1>1, FileOptions, ManifestChoicePath
  <2>6. /\ translation \in Path /\ translation # NoPath
        /\ opts.value["--translation"] # Empty =>
             translation.name = opts.value["--translation"]
    BY <1>1, FileOptions, ManifestChoicePath
  <2> QED BY <1>1, <2>1, <2>3, <2>4, <2>5, <2>6, FileOptions, CompileWithKeeps
<1>5. CASE Compile
  <2>1. pc = "start" /\ mode = "compile" /\ temp' = temp /\ SourceWord # Empty
    BY <1>5 DEF Compile, In
  <2> DEFINE source == [at |-> "cwd", name |-> SourceWord]
             language == opts.value["--target"]
             file == IF language = Empty THEN Empty ELSE opts.value["--output"]
  <2>2. PICK grammar \in Choice("--grammar", DefaultGrammar),
             translation \in Choice("--translation", DefaultTranslation) :
          CompileWith(source, grammar, translation, language, file)
    BY <1>5 DEF Compile
  <2>3. SourceWord \in FileName /\ (opts.source # Empty => SourceWord = opts.source)
    <3>1. opts.source \in Word /\ opts.positional \in Seq(Word)
      BY <1>1 DEF Options
    <3>2. opts.positional # <<>> => Head(opts.positional) \in Word
      BY <3>1, HeadTailProperties
    <3> QED BY <3>1, <3>2, WordsAreArguments, FileOptions DEF SourceWord
  <2>4. source \in Path /\ source.name = SourceWord
    BY <2>3, SomePath DEF Places
  <2>5. language \in Argument /\ file \in Argument
    BY <1>1, FileOptions DEF Options
  <2> HIDE DEF source, language, file
  <2>6. /\ grammar \in Path /\ grammar # NoPath
        /\ opts.value["--grammar"] # Empty => grammar.name = opts.value["--grammar"]
    BY <1>1, FileOptions, ChoicePath
  <2>7. /\ translation \in Path /\ translation # NoPath
        /\ opts.value["--translation"] # Empty =>
             translation.name = opts.value["--translation"]
    BY <1>1, FileOptions, ChoicePath
  <2> QED BY <1>1, <2>1, <2>2, <2>3, <2>4, <2>5, <2>6, <2>7, CompileWithKeeps
<1> QED BY <1>2, <1>3, <1>4, <1>5

LEMMA CompilerKeeps ==
  ASSUME RunInv,
         \/ LoadSource \/ LoadGrammar \/ LoadTranslation
         \/ LexStandardLibrary \/ LexSource \/ ParseTokens \/ Analyze
         \/ FallOffTheEnd \/ Generate \/ WriteOutput \/ Return
  PROVE  RunInv'
<1>1. ASSUME NEW phase \in Phases \cup {"lex"},
             NEW next \in Phases \cup {"lex", "generate"}, Pass(phase, next)
      PROVE  RunInv'
  <2>1. /\ UNCHANGED <<parserVars, selftest, mode, used, temp, output, exit>>
        /\ pc = phase /\ pc' = next /\ passed' = passed \cup {phase}
    BY <1>1 DEF Pass
  <2>2. RunTyped'
    BY <2>1 DEF RunInv, RunTyped
  <2> QED BY <2>1, <2>2, ChoiceStays DEF Phases
<1>2. ASSUME NEW phase \in Phases \cup {"write"}, Fail(phase)
      PROVE  RunInv'
  <2>1. /\ UNCHANGED <<parserVars, selftest, mode, used, passed, temp, output>>
        /\ pc = phase /\ pc' = "return" /\ exit' = 1
    BY <1>2 DEF Fail
  <2>2. RunTyped'
    BY <2>1 DEF RunInv, RunTyped
  <2> QED BY <2>1, <2>2, ChoiceStays DEF Phases
<1>3. CASE \/ LoadSource \/ LoadGrammar \/ LoadTranslation
           \/ LexStandardLibrary \/ LexSource \/ ParseTokens
  BY <1>1, <1>2, <1>3 DEF LoadSource, LoadGrammar, LoadTranslation,
     LexStandardLibrary, LexSource, ParseTokens, Phases
<1>4. ASSUME UNCHANGED <<parserVars, used, mode>>, pc \in {"analyze", "generate",
               "write", "return"}, pc' \in {"write", "return", "ended"},
             selftest' = selftest, temp' \in {temp, FALSE},
             passed' \in {passed, passed \cup {"generate"}},
             output' \in {output, "code", "part"},
             exit' \in {exit, Crash, 0, 1}
      PROVE  RunInv'
  <2>1. RunTyped
    BY DEF RunInv
  <2>2. /\ passed' \subseteq passed \cup {"generate"} /\ temp' \in BOOLEAN
        /\ exit' \in {NoExit, Crash, 0, 1, 2} /\ output' \in {"old", "code", "part"}
    BY <1>4, <2>1 DEF RunTyped
  <2>3. used' = used /\ mode' = mode /\ selftest' = selftest
    BY <1>4
  <2>4. RunTyped'
    BY <1>4, <2>1, <2>2, <2>3 DEF RunTyped
  <2> QED BY <1>4, <2>4, ChoiceStays
<1>5. CASE Analyze
  <2>1. CASE Pass("analyze", "generate") \/ Fail("analyze")
    BY <1>1, <1>2, <2>1 DEF Phases
  <2>2. CASE /\ pc = "analyze" /\ Exit(Crash)
             /\ UNCHANGED <<parserVars, selftest, mode, used, passed, temp, output>>
    BY <1>4, <2>2 DEF Exit
  <2> QED BY <1>5, <2>1, <2>2 DEF Analyze
<1>6. CASE FallOffTheEnd
  BY <1>4, <1>6 DEF FallOffTheEnd, Exit
<1>7. CASE Generate
  BY <1>4, <1>7 DEF Generate, Succeed
<1>8. CASE WriteOutput
  <2>1. CASE Fail("write")
    BY <1>2, <2>1
  <2>2. CASE /\ pc = "write" /\ output' \in {"code", "part"} /\ Succeed
             /\ UNCHANGED <<parserVars, selftest, mode, used, passed, temp>>
    BY <1>4, <2>2 DEF Succeed
  <2> QED BY <1>8, <2>1, <2>2 DEF WriteOutput
<1>9. CASE Return
  BY <1>4, <1>9 DEF Return
<1> QED BY <1>3, <1>5, <1>6, <1>7, <1>8, <1>9

(***************************************************************************)
(* The inductive invariant: while the arguments are read, each option has  *)
(* the value of its last use and the words are kept in their order; from   *)
(* then on the mode and the files that the compiler gets follow them.      *)
(***************************************************************************)
THEOREM RunsFollowTheirArguments == Spec => []RunInv
<1>1. Init => RunInv
  <2> SUFFICES ASSUME Init PROVE RunInv
    OBVIOUS
  <2>1. ReadingInv /\ reading /\ opts = NoOptions
    BY ReadingStarts DEF Init, ParserInit
  <2>2. NoPath \in Path
    BY FileOptions, PathIs DEF NoPath, Places
  <2>3. RunTyped
    BY <2>2, FileOptions DEF Init, RunTyped
  <2>4. Chosen
    BY <2>1 DEF Init, Chosen, ModeChosen, FilesChosen, Nothing, NoMode, NoOptions
  <2> QED BY <2>1, <2>3, <2>4 DEF RunInv
<1>2. RunInv /\ [Next]_vars => RunInv'
  <2> SUFFICES ASSUME RunInv, [Next]_vars PROVE RunInv'
    OBVIOUS
  <2>1. CASE UNCHANGED vars
    <3>1. ReadingInv' /\ opts' = opts /\ reading' = reading
      BY <2>1, SameOptions DEF vars
    <3>2. RunTyped'
      BY <2>1 DEF vars, driverVars, RunInv, RunTyped
    <3>3. Chosen'
      BY <2>1, <3>1 DEF vars, driverVars, RunInv, Chosen, ModeChosen, FilesChosen
    <3> QED BY <3>1, <3>2, <3>3 DEF RunInv
  <2>2. CASE Next
    BY <2>1, <2>2, ArgumentsRead, DispatchKeeps, EndingModesKeep, LexSamplesKeeps,
       CompilingModesKeep, CompilerKeeps DEF Next, Terminated
  <2> QED BY <2>1, <2>2
<1> QED BY <1>1, <1>2, PTL DEF Spec

-----------------------------------------------------------------------------
(* What the run checks *)

(***************************************************************************)
(* The options, the paths and the exit code have the values the code can   *)
(* give them; only --grammar can hold a word that was no argument.         *)
(***************************************************************************)
THEOREM Typing == Spec => []TypeOK
<1>1. RunInv => TypeOK
  BY DEF RunInv, ReadingInv, ReadingTyped, Options, RunTyped, TypeOK, ParserTypeOK
<1> QED BY <1>1, RunsFollowTheirArguments, PTL

(***************************************************************************)
(* No word outside the options gets lost, doubled or out of its order,     *)
(* whatever command there is and whichever files options gave.             *)
(***************************************************************************)
THEOREM WordsAreKept == Spec => []EveryWordIsPlaced
<1>1. RunInv => EveryWordIsPlaced
  BY DEF RunInv, ReadingInv, AllRead, EveryWordIsPlaced
<1> QED BY <1>1, RunsFollowTheirArguments, PTL

(***************************************************************************)
(* The grammar and the translation that the last use of an option gave     *)
(* are those of the compiler, whatever the mode and the manifest.          *)
(***************************************************************************)
THEOREM OptionsPrevail == Spec => []OverridesPrevail
<1>1. RunInv => OverridesPrevail
  <2> SUFFICES ASSUME RunInv, mode # NoMode, ~opts.legacy PROVE OverridesPrevail
    BY DEF OverridesPrevail
  <2>1. AllRead /\ ModeChosen /\ FilesChosen
    BY DEF RunInv, ReadingInv, Chosen, ModeChosen
  <2>2. CASE opts.error = Empty
    <3>1. /\ Given("--grammar") # Empty =>
               opts.value["--grammar"] = Given("--grammar")
          /\ Given("--translation") # Empty =>
               opts.value["--translation"] = Given("--translation")
      BY <2>1, <2>2 DEF AllRead, Overridable
    <3> QED BY <2>1, <3>1 DEF FilesChosen, OverridesPrevail
  <2>3. CASE opts.error # Empty
    <3>1. used.grammar = NoPath /\ used.translation = NoPath
      BY <2>1, <2>3 DEF ModeChosen, FilesChosen, Nothing
    <3> QED BY <3>1 DEF OverridesPrevail
  <2> QED BY <2>2, <2>3
<1> QED BY <1>1, RunsFollowTheirArguments, PTL

(***************************************************************************)
(* Three bare words are a compile command with these three files, even     *)
(* when an option gave others; no run takes the branch for them in main(). *)
(***************************************************************************)
THEOREM BareWordsCompile == Spec => []LegacyFormIsCompile
<1>1. RunInv => LegacyFormIsCompile
  <2> SUFFICES ASSUME RunInv PROVE LegacyFormIsCompile
    OBVIOUS
  <2>1. mode # "legacy"
    BY DEF RunInv, Chosen, ModeChosen
  <2>2. ASSUME opts.legacy, used.source # NoPath, Empty \notin {argv[k] : k \in Starts}
        PROVE  Words = <<used.source.name, used.grammar.name, used.translation.name>>
    <3>1. ModeChosen /\ FilesChosen
      BY DEF RunInv, Chosen
    <3>2. used # Nothing
      BY <2>2 DEF Nothing
    <3>3. pc # "arguments" /\ mode \notin {"refuse", "inform"}
      BY <3>1, <3>2 DEF FilesChosen
    <3>4. mode = "compile" /\ AllRead
      BY <2>2, <3>1, <3>3 DEF ModeChosen, RunInv, ReadingInv
    <3>5. LegacyShape(opts, Words) /\ Words \in Solid
      BY <2>2, <3>4 DEF AllRead, SolidArguments
    <3> QED BY <2>2, <3>1, <3>4, <3>5 DEF LegacyShape, FilesChosen
  <2> QED BY <2>1, <2>2 DEF LegacyFormIsCompile
<1> QED BY <1>1, RunsFollowTheirArguments, PTL
=============================================================================
