-------------------------------- MODULE Driver --------------------------------
(***************************************************************************)
(* One run of the program: main() in src/main.cpp, from the arguments that *)
(* CommandLine reads to the exit code.  main() picks a mode, resolves the  *)
(* files the mode needs and drives class Compiler through its phases.      *)
(*                                                                         *)
(* The file system belongs to the environment: whether a file exists, can  *)
(* be opened or holds a correct program is decided when it is asked for,   *)
(* and the answer may change between two questions.                        *)
(***************************************************************************)
EXTENDS CommandLine

CONSTANTS Absolute,   \* the words that are absolute paths
          Sample,     \* the files in examples/ipl
          Manifests   \* what may be in a manifest: sequences of <<key, word>>

ASSUME DriverAssumption ==
  /\ Absolute \subseteq Word \ {Empty}
  /\ Manifests \subseteq Seq({"source", "grammar", "translation"} \X Word)

Modes == {"inform", "lex-samples", "demo", "stdin", "run", "compile",
          "selftest", "legacy", "refuse"}

Phases == {"source", "grammar", "translation", "stdlib", "parse", "analyze"}

NoPath == [at |-> "nowhere", name |-> Empty]

Places == {"cwd", "exe", "manifest", "root", "temp", "nowhere"}

NoMode == "none"
NoExit == -1
Crash  == -2          \* the process ends without an exit code of its own

VARIABLES
  selftest,   \* whether RUN_COMPILER_TEST=1 is in the environment
  pc,         \* where main() is
  mode,       \* the branch of main() that was taken
  used,       \* the paths that Compiler was given
  passed,     \* the phases passed, and the samples that were tokenized
  temp,       \* whether this run has put standard input in the temporary file
  output,     \* what is in the file that --output names
  exit        \* the exit code

driverVars == <<selftest, pc, mode, used, passed, temp, output, exit>>
vars == <<parserVars, driverVars>>

-----------------------------------------------------------------------------
(* Files *)

\* What resolveExistingPath and resolvePathNearExecutable may make of a path.
Resolved(name) == [at : {"cwd", "exe"}, name : {name}]

\* The file that an option or, without it, a default gives.
Choice(option, default) ==
  Resolved(IF opts.value[option] = Empty THEN default ELSE opts.value[option])

\* The paths of a manifest; the last entry for a key counts.
ManifestPath(entries, key) ==
  LET at == {k \in DOMAIN entries : entries[k][1] = key}
      word == entries[CHOOSE k \in at : \A l \in at : l <= k][2]
  IN  IF at = {} THEN NoPath
      ELSE [at |-> IF word \in Absolute THEN "root" ELSE "manifest",
            name |-> word]

\* What "run" takes from the options, the manifest or the defaults.
ManifestChoice(entries, key, option, default) ==
  IF opts.value[option] # Empty THEN Resolved(opts.value[option])
  ELSE IF ManifestPath(entries, key) # NoPath
       THEN {ManifestPath(entries, key)}
       ELSE Resolved(default)

-----------------------------------------------------------------------------
(* main() *)

ReadsArguments == pc = "arguments" /\ ReadArguments /\ UNCHANGED driverVars

Branches ==
  << <<opts.error # Empty, "refuse">>,
     <<"--version" \in opts.flags, "inform">>,
     <<"--help" \in opts.flags, "inform">>,
     <<"--lex-ipl-samples" \in opts.flags \/ opts.command = "lex-samples",
       "lex-samples">>,
     <<"--demo" \in opts.flags, "demo">>,
     <<"--stdin" \in opts.flags, "stdin">>,
     <<opts.command = "run", "run">>,
     <<opts.command = "compile", "compile">>,
     <<selftest, "selftest">>,
     <<opts.legacy, "legacy">>,
     <<TRUE, "refuse">> >>

Dispatch ==
  /\ pc = "arguments" /\ ~reading /\ pc' = "start"
  /\ \E n \in DOMAIN Branches :
       /\ Branches[n][1] /\ \A m \in 1 .. n - 1 : ~Branches[m][1]
       /\ mode' = Branches[n][2]
  /\ UNCHANGED <<parserVars, selftest, used, passed, temp, output, exit>>

In(m) == pc = "start" /\ mode = m

Exit(code) == pc' = "ended" /\ exit' = code

Inform ==
  /\ In("inform") /\ Exit(0)
  /\ UNCHANGED <<parserVars, selftest, mode, used, passed, temp, output>>

\* Also the branches that find a file missing: an error message and exit code 1.
Refuse ==
  /\ pc = "start" /\ Exit(1)
  /\ mode \in {"refuse", "lex-samples", "stdin", "run", "compile"}
  /\ UNCHANGED <<parserVars, selftest, mode, used, passed, temp, output>>

\* Every sample that can be read is tokenized, whatever happens to the others.
LexSamples ==
  /\ In("lex-samples")
  /\ \E grammar \in Choice("--grammar", DefaultGrammar),
        readable \in SUBSET Sample :
       /\ used' = [used EXCEPT !.grammar = grammar]
       /\ passed' = passed \cup readable
       /\ Exit(IF readable = Sample THEN 0 ELSE 1)
  /\ UNCHANGED <<parserVars, selftest, mode, temp, output>>

\* compileWithTarget; compileWithConfig is the call without target and output.
CompileWith(source, grammar, translation, language, file) ==
  /\ used' = [source |-> source, grammar |-> grammar,
              translation |-> translation, language |-> language,
              output |-> file]
  /\ pc' = "source"
  /\ UNCHANGED <<parserVars, selftest, mode, passed, output, exit>>

DemoMissing ==
  /\ In("demo") /\ Exit(2)
  /\ UNCHANGED <<parserVars, selftest, mode, used, passed, temp, output>>

Demo ==
  /\ In("demo")
  /\ \E source \in Resolved("examples/test_source.c"),
        grammar \in Choice("--grammar", "examples/grammar_rules.txt"),
        translation \in Choice("--translation", DefaultTranslation) :
       CompileWith(source, grammar, translation, Empty, Empty)
  /\ UNCHANGED temp

Stdin ==
  /\ In("stdin") /\ temp' = TRUE
  /\ \E grammar \in Choice("--grammar", DefaultGrammar),
        translation \in Choice("--translation", DefaultTranslation) :
       CompileWith([at |-> "temp", name |-> "istudio-stdin-src.ipl"],
                   grammar, translation, Empty, Empty)

Run ==
  /\ In("run") /\ UNCHANGED temp
  /\ \E entries \in Manifests :
       /\ ManifestPath(entries, "source") # NoPath
       /\ \E grammar \in ManifestChoice(entries, "grammar", "--grammar",
                                        DefaultGrammar),
             translation \in ManifestChoice(entries, "translation",
                                            "--translation", DefaultTranslation) :
            CompileWith(ManifestPath(entries, "source"), grammar, translation,
                        Empty, Empty)

\* opts.sourceFile, or else a word that the arguments left over.
SourceWord ==
  IF opts.source = Empty /\ opts.positional # <<>> THEN Head(opts.positional)
  ELSE opts.source

\* Only this mode passes the target language and the output on.
Compile ==
  /\ In("compile") /\ SourceWord # Empty /\ UNCHANGED temp
  /\ \E grammar \in Choice("--grammar", DefaultGrammar),
        translation \in Choice("--translation", DefaultTranslation) :
       LET language == opts.value["--target"]
           file == IF language = Empty THEN Empty ELSE opts.value["--output"]
       IN  CompileWith([at |-> "cwd", name |-> SourceWord], grammar, translation,
                       language, file)

\* compile(source) of the built-in program: no files, no target.
SelfTest ==
  /\ In("selftest") /\ pc' = "stdlib"
  /\ UNCHANGED <<parserVars, selftest, mode, used, passed, temp, output, exit>>

\* The branch for opts.legacyCompile that follows has no action: no options
\* reach it (LegacyFormIsCompile).

-----------------------------------------------------------------------------
(* class Compiler *)

Pass(phase, next) ==
  /\ pc = phase /\ pc' = next /\ passed' = passed \cup {phase}
  /\ UNCHANGED <<parserVars, selftest, mode, used, temp, output, exit>>

\* Mutant: main() returns at once.
FailAtOnce(phase) ==
  /\ pc = phase /\ Exit(1)
  /\ UNCHANGED <<parserVars, selftest, mode, used, passed, temp, output>>

\* The method returns false.
Fail(phase) ==
  /\ pc = phase /\ pc' = "return" /\ exit' = 1
  /\ UNCHANGED <<parserVars, selftest, mode, used, passed, temp, output>>

\* Mutant: a translation that cannot be opened makes it load the files again.
LoadTranslationAgain ==
  \/ Pass("translation", "stdlib")
  \/ /\ pc = "translation" /\ pc' = "source"
     /\ UNCHANGED <<parserVars, selftest, mode, used, passed, temp, output, exit>>

\* Config: a file that cannot be opened ends the compilation.
LoadSource      == Pass("source", "grammar") \/ Fail("source")
LoadGrammar     == Pass("grammar", "translation") \/ Fail("grammar")
LoadTranslation == Pass("translation", "stdlib") \/ Fail("translation")

\* loadStandardLibraryTokens: without the directory there is nothing to load.
LexStandardLibrary == Pass("stdlib", "lex") \/ Fail("stdlib")

\* The lexer reports no error.
LexSource == Pass("lex", "parse")

\* Mutant: hadError() is not asked.
ParseUnchecked ==
  \/ Pass("parse", "analyze")
  \/ /\ pc = "parse" /\ pc' = "analyze"
     /\ UNCHANGED <<parserVars, selftest, mode, used, passed, temp, output, exit>>

ParseTokens == Pass("parse", "analyze") \/ Fail("parse")

\* The analysis of a variable without a type may end the process.
Analyze ==
  \/ Pass("analyze", "generate") \/ Fail("analyze")
  \/ /\ pc = "analyze" /\ Exit(Crash)
     /\ UNCHANGED <<parserVars, selftest, mode, used, passed, temp, output>>

\* compileInternal ends without a return statement: any result, or none.
FallOffTheEnd ==
  /\ pc = "generate" /\ mode = "selftest"
  /\ \/ pc' = "return" /\ exit' \in {0, 1}
     \/ Exit(Crash)
  /\ UNCHANGED <<parserVars, selftest, mode, used, passed, temp, output>>

Succeed == pc' = "return" /\ exit' = 0

\* Without a target nothing is generated; without an output it is printed.
Generate ==
  /\ pc = "generate" /\ mode # "selftest"
  /\ \/ used.language = Empty /\ Succeed /\ UNCHANGED passed
     \/ used.language # Empty /\ used.output = Empty /\ Succeed
        /\ passed' = passed \cup {"generate"}
     \/ used.language # Empty /\ used.output # Empty
        /\ passed' = passed \cup {"generate"} /\ pc' = "write" /\ UNCHANGED exit
  /\ UNCHANGED <<parserVars, selftest, mode, used, temp, output>>

\* Mutant: a write that failed is reported, over a file that is gone.
WriteChecked ==
  /\ pc = "write"
  /\ \/ output' = "code" /\ Succeed
     \/ output' = "part" /\ pc' = "return" /\ exit' = 1
  /\ UNCHANGED <<parserVars, selftest, mode, used, passed, temp>>

\* std::ofstream truncates the file.  Only opening it is checked: the program
\* reports success when the disk is full.
WriteOutput ==
  \/ /\ pc = "write" /\ output' \in {"code", "part"} /\ Succeed
     /\ UNCHANGED <<parserVars, selftest, mode, used, passed, temp>>
  \/ Fail("write")

\* Mutant: main() does not look at what the compiler returned.
ReturnUnchecked ==
  /\ pc = "return" /\ pc' = "ended" /\ temp' = FALSE /\ exit' = 0
  /\ UNCHANGED <<parserVars, selftest, mode, used, passed, output>>

\* Back in main(), which removes the temporary file of --stdin.
Return ==
  /\ pc = "return" /\ pc' = "ended" /\ temp' = FALSE
  /\ UNCHANGED <<parserVars, selftest, mode, used, passed, output, exit>>

-----------------------------------------------------------------------------
Init ==
  /\ ParserInit
  /\ selftest \in BOOLEAN
  /\ pc = "arguments" /\ mode = NoMode
  /\ used = [source |-> NoPath, grammar |-> NoPath, translation |-> NoPath,
             language |-> Empty, output |-> Empty]
  /\ passed = {} /\ temp = FALSE /\ output = "old" /\ exit = NoExit

Terminated == pc = "ended" /\ UNCHANGED vars

Next ==
  \/ ReadsArguments \/ Dispatch
  \/ Inform \/ Refuse \/ LexSamples \/ DemoMissing \/ Demo \/ Stdin \/ Run
  \/ Compile \/ SelfTest
  \/ LoadSource \/ LoadGrammar \/ LoadTranslation
  \/ LexStandardLibrary \/ LexSource \/ ParseTokens \/ Analyze
  \/ FallOffTheEnd \/ Generate \/ WriteOutput \/ Return
  \/ Terminated

Spec == Init /\ [][Next]_vars

\* main() is one thread and waits for nothing but standard input, which is
\* taken to end.
FairSpec == Spec /\ WF_vars(Next)

-----------------------------------------------------------------------------
(* Correctness *)

Path == [at : Places,
         name : Argument \cup {DefaultGrammar, DefaultTranslation,
                               "examples/test_source.c",
                               "examples/grammar_rules.txt",
                               "istudio-stdin-src.ipl"}]

TypeOK ==
  /\ ParserTypeOK
  /\ selftest \in BOOLEAN
  /\ pc \in Phases \cup {"arguments", "start", "lex", "generate", "write",
                         "return", "ended"}
  /\ mode \in Modes \cup {NoMode}
  /\ used \in [source : Path, grammar : Path, translation : Path,
               language : Argument, output : Argument]
  /\ passed \subseteq Phases \cup Sample \cup {"lex", "generate"}
  /\ temp \in BOOLEAN
  /\ output \in {"old", "code", "part"}
  /\ exit \in {NoExit, Crash, 0, 1, 2}

(***************************************************************************)
(* Exit code 0 is earned: the program was only asked to inform, it has     *)
(* tokenized every sample, or the source went through every phase, with    *)
(* code generated when a target was passed on.  What compileInternal       *)
(* returns without a return statement is left out.                         *)
(***************************************************************************)
SuccessIsEarned ==
  pc = "ended" /\ exit = 0 =>
    \/ mode \in {"inform", "selftest"}
    \/ mode = "lex-samples" /\ Sample \subseteq passed
    \/ /\ Phases \subseteq passed
       /\ used.language # Empty => "generate" \in passed

(***************************************************************************)
(* A run that fails, at whatever phase, leaves the file that --output      *)
(* names as it was: an older result is not lost to a program that does not *)
(* compile any more.                                                       *)
(***************************************************************************)
FailuresLeaveTheOutput ==
  pc = "ended" /\ exit # 0 => output = "old"

(***************************************************************************)
(* The temporary file of --stdin is gone at the end of every run that main *)
(* returns from, whichever phase stopped the compilation.                  *)
(***************************************************************************)
TemporaryIsRemoved ==
  pc = "ended" /\ exit # Crash => ~temp

(***************************************************************************)
(* The grammar and the translation that options gave are those the         *)
(* compiler gets, in every mode, whatever words, manifests and --standard  *)
(* say; docs/feature_matrix.md: "honours CLI overrides".  The form of      *)
(* three bare words is the exception.                                      *)
(***************************************************************************)
OverridesPrevail ==
  mode # NoMode /\ ~opts.legacy =>
     /\ used.grammar # NoPath /\ Given("--grammar") # Empty =>
          used.grammar.name = Given("--grammar")
     /\ used.translation # NoPath /\ Given("--translation") # Empty =>
          used.translation.name = Given("--translation")

(***************************************************************************)
(* "IStudio source grammar translation" is a compile command: the branch   *)
(* of main() for opts.legacyCompile is never reached, not even with        *)
(* RUN_COMPILER_TEST, and the compiler gets the three words.               *)
(***************************************************************************)
LegacyFormIsCompile ==
  /\ mode # "legacy"
  /\ opts.legacy /\ used.source # NoPath /\ Empty \notin {argv[k] : k \in Starts}
     => Words = <<used.source.name, used.grammar.name, used.translation.name>>

Outcome ==
  CASE exit = NoExit           -> "pending"
    [] exit = 0                -> "success"
    [] exit = Crash            -> "crashed"
    [] exit \in Int \ {NoExit, 0, Crash} -> "failure"

Promise == INSTANCE Compilation WITH
  outcome <- Outcome, output <- output, scratch <- temp

(***************************************************************************)
(* Whatever mode main() takes and wherever the compiler stops, a run keeps *)
(* what Compilation promises: the exit code is decided once, the output    *)
(* file changes in the step that decides for success and in no other, and  *)
(* the temporary file goes after the decision.                             *)
(***************************************************************************)
Implements == Promise!Spec

(***************************************************************************)
(* Every run comes to its end, with the temporary file removed unless the  *)
(* process has crashed.                                                    *)
(***************************************************************************)
Concludes == Promise!Conclusion

(***************************************************************************)
(* docs/feature_matrix.md: "`--output` | Informational | Placeholder flag; *)
(* no code generation emitted yet."  main() prints the same.               *)
(***************************************************************************)
OutputHasNoEffect == output = "old"
=============================================================================
