----------------------------- MODULE CommandLine -----------------------------
(***************************************************************************)
(* How the program reads its arguments: parseCommandLine in src/main.cpp,  *)
(* one action for each kind of argument and one for what follows the loop. *)
(*                                                                         *)
(* The short form of an option stands for the same argument as the long    *)
(* form.  --verbose, --emit-sema and --emit-ir only change what is printed *)
(* and are one argument here.                                              *)
(***************************************************************************)
EXTENDS Integers, Sequences, FiniteSets

CONSTANTS Word,       \* arguments that are neither options nor commands
          Standard,   \* the words grammarForStandard knows: ipl, default
          Arguments   \* the command lines, without the program's name

Empty == "<empty>"    \* the empty string, a word like the others

Flag == {"--help", "--version", "--verbose", "--lex-ipl-samples", "--demo",
         "--stdin"}
ValueOption == {"--grammar", "--translation", "--project", "--standard",
                "--output", "--target"}
Command  == {"compile", "run", "lex-samples"}
Unknown  == "--unknown"       \* any other argument that starts with a dash
Argument == Flag \cup ValueOption \cup Command \cup Word \cup {Unknown}

DefaultGrammar     == "examples/ipl/grammar_rules.txt"
DefaultTranslation == "examples/translation_rules.txt"

ASSUME WordAssumption ==
  /\ Empty \in Word
  /\ Standard \subseteq Word \ {Empty}
  /\ Word \cap (Flag \cup ValueOption \cup Command \cup {Unknown}) = {}
  /\ {DefaultGrammar, DefaultTranslation} \cap Word = {}
  /\ Arguments \subseteq Seq(Argument)

VARIABLES argv, i, reading, opts

parserVars == <<argv, i, reading, opts>>

NoOptions ==
  [flags      |-> {},
   value      |-> [o \in ValueOption |-> Empty],
   source     |-> Empty,      \* opts.sourceFile
   command    |-> Empty,
   legacy     |-> FALSE,      \* opts.legacyCompile
   positional |-> <<>>,
   error      |-> Empty]      \* opts.errorMessage

Errors == {Empty, "missing value", "unknown option", "unknown standard"}

-----------------------------------------------------------------------------
(* The loop over argv *)

Arg == argv[i]

Reads(kind) == reading /\ i <= Len(argv) /\ Arg \in kind

TakeFlag ==
  /\ Reads(Flag)
  /\ opts' = [opts EXCEPT
       !.flags = @ \cup {Arg},
       !.command = IF Arg = "--lex-ipl-samples" THEN "lex-samples" ELSE @]
  /\ i' = i + 1 /\ UNCHANGED <<argv, reading>>

\* Mutant: nobody asks whether there is a next argument.
TakeValueUnchecked ==
  /\ Reads(ValueOption)
  /\ opts' = [opts EXCEPT !.value[Arg] = IF i < Len(argv) THEN argv[i + 1] ELSE Empty]
  /\ i' = i + 2 /\ UNCHANGED <<argv, reading>>

\* The next argument is the value, whatever it looks like.
TakeValue ==
  /\ Reads(ValueOption) /\ i < Len(argv)
  /\ opts' = [opts EXCEPT !.value[Arg] = argv[i + 1]]
  /\ i' = i + 2 /\ UNCHANGED <<argv, reading>>

TakeCommand ==
  /\ Reads(Command)
  /\ opts' = [opts EXCEPT !.command = Arg]
  /\ i' = i + 1 /\ UNCHANGED <<argv, reading>>

TakePositional ==
  /\ Reads(Word)
  /\ opts' = [opts EXCEPT !.positional = Append(@, Arg)]
  /\ i' = i + 1 /\ UNCHANGED <<argv, reading>>

Reject(message) ==
  /\ opts' = [opts EXCEPT !.error = message]
  /\ reading' = FALSE /\ UNCHANGED <<argv, i>>

MissingValue == Reads(ValueOption) /\ i = Len(argv) /\ Reject("missing value")

UnknownOption == Reads({Unknown}) /\ Reject("unknown option")

-----------------------------------------------------------------------------
(* After the loop *)

WithSource(o) ==
  IF o.positional = <<>> THEN o
  ELSE [o EXCEPT !.source = Head(o.positional), !.positional = Tail(@)]

\* Mutant: a positional file replaces the one an option gave.
WithFileAnyway(o, option) ==
  IF o.positional = <<>> THEN o
  ELSE [o EXCEPT !.value[option] = Head(o.positional), !.positional = Tail(@)]

WithFile(o, option) ==
  IF o.positional = <<>> \/ o.value[option] # Empty THEN o
  ELSE [o EXCEPT !.value[option] = Head(o.positional), !.positional = Tail(@)]

CompileFiles(o) ==
  IF o.command # "compile" THEN o
  ELSE WithFile(WithFile(WithSource(o), "--grammar"), "--translation")

IsLegacy(o) ==
  /\ o.command = Empty /\ Len(o.positional) = 3
  /\ o.flags \cap {"--demo", "--stdin", "--lex-ipl-samples"} = {}

\* Mutant: the form is marked, but not turned into a compile command.
LegacyUnmarked(o) ==
  IF ~IsLegacy(o) THEN o
  ELSE [o EXCEPT !.legacy = TRUE,
                 !.source = o.positional[1],
                 !.value["--grammar"] = o.positional[2],
                 !.value["--translation"] = o.positional[3],
                 !.positional = <<>>]

\* Mutant: the words stay in the list.
LegacyKept(o) ==
  IF ~IsLegacy(o) THEN o
  ELSE [o EXCEPT !.command = "compile", !.legacy = TRUE,
                 !.source = o.positional[1],
                 !.value["--grammar"] = o.positional[2],
                 !.value["--translation"] = o.positional[3]]

\* "IStudio source grammar translation": unlike the words of a compile
\* command, these replace what --grammar and --translation gave.
Legacy(o) ==
  IF ~IsLegacy(o) THEN o
  ELSE [o EXCEPT !.command = "compile", !.legacy = TRUE,
                 !.source = o.positional[1],
                 !.value["--grammar"] = o.positional[2],
                 !.value["--translation"] = o.positional[3],
                 !.positional = <<>>]

\* The standard is only looked at when nothing else gave a grammar.
StandardGrammar(o) ==
  IF o.value["--standard"] = Empty \/ o.value["--grammar"] # Empty THEN o
  ELSE IF o.value["--standard"] \in Standard
       THEN [o EXCEPT !.value["--grammar"] = DefaultGrammar]
       ELSE [o EXCEPT !.error = "unknown standard"]

EndOfArguments ==
  /\ reading /\ i > Len(argv)
  /\ opts' = StandardGrammar(Legacy(CompileFiles(opts)))
  /\ reading' = FALSE /\ UNCHANGED <<argv, i>>

ReadArguments ==
  \/ TakeFlag \/ TakeValue \/ TakeCommand \/ TakePositional
  \/ MissingValue \/ UnknownOption \/ EndOfArguments

ParserInit ==
  /\ argv \in Arguments
  /\ i = 1 /\ reading = TRUE /\ opts = NoOptions

-----------------------------------------------------------------------------
(* Correctness *)

ParserTypeOK ==
  /\ argv \in Seq(Argument)
  /\ i \in 1 .. Len(argv) + 1
  /\ reading \in BOOLEAN
  /\ opts.flags \subseteq Flag
  /\ opts.value \in [ValueOption -> Argument \cup {DefaultGrammar}]
  /\ opts.source \in Word
  /\ opts.command \in Command \cup {Empty}
  /\ opts.legacy \in BOOLEAN
  /\ opts.positional \in Seq(Word)
  /\ opts.error \in Errors

\* The positions of argv that do not hold the value of an option.
Starts ==
  LET start[k \in 1 .. Len(argv)] ==
        k = 1 \/ ~(start[k - 1] /\ argv[k - 1] \in ValueOption)
  IN  {k \in 1 .. Len(argv) : start[k]}

\* What the last use of an option gave.
Given(option) ==
  LET uses == {k \in Starts : argv[k] = option}
  IN  IF uses = {} THEN Empty
      ELSE argv[(CHOOSE k \in uses : \A l \in uses : l <= k) + 1]

\* The words outside the options, in their order.
Words == [k \in 1 .. Cardinality({l \in Starts : argv[l] \in Word}) |->
            argv[CHOOSE l \in Starts :
                   /\ argv[l] \in Word
                   /\ Cardinality({m \in Starts : m <= l /\ argv[m] \in Word}) = k]]

Kept(file) == IF file \in {Empty, DefaultGrammar} THEN <<>> ELSE <<file>>

\* The file that a word, and not the option, named.
Placed(option) ==
  IF Given(option) # Empty /\ ~opts.legacy THEN <<>>
  ELSE Kept(opts.value[option])

(***************************************************************************)
(* Every word outside the options ends up in one place and in its order:   *)
(* as the source, as a file that no option gave, or in the list of those   *)
(* that are left (opts.positional).                                        *)
(***************************************************************************)
EveryWordIsPlaced ==
  ~reading /\ opts.error = Empty /\ (\A k \in Starts : argv[k] # Empty) =>
    Words = Kept(opts.source) \o Placed("--grammar") \o Placed("--translation")
              \o opts.positional
=============================================================================
