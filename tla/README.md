# A TLA+ model of IStudio

IStudio is a compiler front end for the Impossible Programming Language (IPL):
`src/main.cpp` reads a command line, loads a source and its rule files, and
drives a lexer, a parser, a semantic analyzer and, when a target language is
given, a code generator. This project models that program in TLA+, checks the
models with TLC and proves the main properties of the parser, of the semantic analyzer,
of standard input, of the command line and of the driver with TLAPS.
Paths below are relative to the repository.

## The system

| Component | State | Operations | Model |
| --- | --- | --- | --- |
| Parser (`src/Parser.cpp`) | tokens, position, `hadError_`, the C++ stack | one function per production, recovery by `synchronize` | `Parser` |
| Semantic analyzer (`src/semantic/`) | scope tree, current scope, `hasReturnStatement_`, diagnostics | one visit function per node, `checkExpressionType` | `SemanticAnalyzer` |
| Standard input (`main`, `Config::loadSourceCode`) | the temporary file, open streams | write, compile, remove | `StdinCompile` |
| Command line (`parseCommandLine`) | the options read so far | one case per kind of argument | `CommandLine` |
| Driver (`main`, class `Compiler`) | mode, paths, phases passed, output file, exit code | dispatch, resolution of files, one method per phase | `Driver` |
| Project manifest (`loadProjectConfig`) | source, grammar and translation paths | read an entry | in `Driver`, partly |
| Configuration (`src/Config.cpp`) | grammar and translation rules, source text | load a file | in `Driver` and `StdinCompile`, partly |
| Lexer in use (`src/istudio/Lexer.cpp`) | none | one token per line | as the inputs of `Parser`, partly |
| Symbol index (`Compiler::indexAST`, `printSemanticSummary`, `src/Symbol.cpp`) | one symbol per name | index a tree, print scopes and symbols | `SymbolIndex` |
| Rule files (`src/codegen/RuleParser.cpp`, `loadRules`) | the section read so far, rules per node kind | read a line, enter the rules | `RuleFile` |
| Generic, C and C++ generators (`src/codegen/`) | rules | one function per node kind, `applyTemplate` | `Generator` |
| Java and Python generators | none | one function per node kind | `JavaGenerator`, `PythonGenerator` |
| Character lexer, diagnostics, IR, `ipl_compiler` | | | not modelled, see below |

How they interact: `main` parses the command line, picks a mode, resolves the
paths and calls `compileWithConfig` or `compileWithTarget`. These load the
source, the grammar and the translation rules through `Config`, tokenize the
standard library and the source, hand the tokens to `Parser`, and stop when
`hadError()` is true. The AST goes by reference to `SemanticAnalyzer`, which
stops the compilation when it reports an error, then to the symbol index and
the generator. `createCodeGenerator` picks a generator by the target language; only
the generic one reads a rule file. The consumers of the AST trust the parser: they dereference
operands without a check. Everything runs on one thread; the only concurrency
is that of several processes which share the file system, and with `--stdin` one
fixed temporary path.

What is hard here, and where it is modelled:

- *error recovery*: a production that fails has consumed tokens, and its caller
  goes on behind them with part of a tree (`Parser`);
- *one flag for many failures*: `hadError_` and the diagnostics list are all that
  stands between a broken tree and code that trusts it (`Parser`,
  `SemanticAnalyzer`);
- *scopes kept by hand*: `pushScope`, `popScope` and a saved pointer have to agree
  over every nesting (`SemanticAnalyzer`);
- *a shared file*: processes, killed runs, failing writes (`StdinCompile`);
- *text made of text*: a generator prints a node from the texts of its children, and
  nothing checks that precedence, braces, semicolons and indentation still say the
  same; a template is filled in text that may hold placeholders (`Generator`,
  `PythonGenerator`, `GeneratedText`);
- *a second walk over the tree*: the flat index sees every name in every scope and
  keeps one (`SymbolIndex`);
- *a dozen ways through `main`*, whose options interact (`CommandLine`, `Driver`).

PROJECT.json lists each hazard at its line with the properties that watch it.

## The models

**`Parser`** is the recursive descent with an explicit stack. A frame stands for
an activation that waits for a call, and is named for the place where it waits;
`call` is the function that starts next, or `"return"` with the result in `ret`.
An action is the code between two calls, so every early return and every
assignment to `hadError_` is in one. A node is what its consumers can tell
apart: null, an identifier, another node, or *hollow*: a node with a null where a
consumer dereferences. Tokens keep their lexeme and kind. The seven levels of
binary operators share one action, since their functions differ in the operators
and the callee only.

**`SemanticAnalyzer`** takes a tree as a function from paths to nodes. The
recursion of `visit` is an agenda of tasks: visiting a node replaces its task by
those of its children and by the checks that follow them. Scopes are created in
order and point to their parents, as the `SymbolScope` objects do.
`checkExpressionType` is a recursive function that returns the type, what it
reports on the way, and whether it dereferences a null type. The lexical scoping
the analyzer should implement is defined a second time, on the tree alone
(`Resolve`), and `LookupIsLexical` compares the two at every step. Ownership is
left out because nothing ever sets `hasMoved`. The trees are those that the parser
makes without an error: `WellFormed` says which kinds of node stand in which slot,
how many slots a node has and which of them are never null, and that a function or
parameter has a type (`parseFunction` begins with one); the assumption on `Programs` is
that every tree is so. `main` stops before the analyzer when `hadError()`
is true, and the nodes that may not lack a child are those of which `Parser` shows it
(`AcceptedTreesAreWhole`). `AcceptedProgramsAreDeclared` leaves out assignments within an
initializer or an assigned value: the analyzer only types those expressions, and
`checkExpressionType` does not look into an assignment.

**`SymbolIndex`** extends it by what class `Compiler` does with an accepted program:
with `--emit-sema` one action per scope of `printSemanticSummary`, which appends a line and
calls itself for the children (`PrintScope`), and one per node of `indexAST`, into a map
from names to symbols that `AddSymbol` overwrites. Both recursions are agendas like the
analyzer's. `Trees` holds the constructors that the checked instances build their programs
with.

**`StdinCompile`** has one action per file operation of `main --stdin`, for any
number of processes. The path names a file or none; an open stream keeps its file
when the name is removed; `std::ofstream` truncates the file and writes at its
own offset; a text is written and read part by part. With `Faults` a stream may
fail to open and a write may fail, and a process may be killed at any time. The
history variable `owner` is the process that has had the file to itself since it
opened it; it has no owner after a failed write, since the code then compiles the part
that was written and may accept it. `Valid` stands for everything else about a
compilation: the grammar and translation files stay as they are while the processes
run, and that they may vanish between a check and the compilation is in `Driver`.

**`CommandLine`** consumes one argument (or an option with its value) per action;
`EndOfArguments` is the code behind the loop of `parseCommandLine`. A short
option is the same argument as its long form, and the options that only change
what is printed are one.

**`Driver`** extends `CommandLine` by the rest of one run: `Branches` lists the
conditions of `main` in their order, a mode resolves its paths and enters class
`Compiler`, whose phases pass or fail, and `Return` is what `main` does after it.
The file system is the environment's: each question about a file may be answered
either way, a second time differently from the first. The parser and the analyzer
are one step each here; what they do inside is the subject of their own modules,
from which `Analyze` takes that an analysis may crash. `FallOffTheEnd` is
`compileInternal`, which reaches its end without a `return`: any result is
possible. The branch of `main` for `legacyCompile` has no action because no
options reach it, which `LegacyFormIsCompile` states.

**`Compilation`** is the abstract specification of a run: it decides once between
success, failure and a crash, changes the output file only together with a success,
and removes its temporary file before it is over. `Driver` implements it
(`Implements`): the outcome is pending while a run can still fail, and the exit code
says which one it was as soon as it cannot. `Concludes` says that every run comes to
that end.

**`RuleFile`** reads a rule file line by line (blank, header, entry with or without
"="), with the section it is in as its state, and enters the sections in `rules_`. A
template is a sequence of pieces; a placeholder is one piece.

**`Generator`** prints a tree in the order in which the generate functions return: an
action makes the text of one node from those of its children, by the rule for its kind
or by the format in the code. A text is a sequence of words, signs and layout, the
latter because it is what keeps two signs apart. `applyTemplate` fills the
placeholders in any order, since the code takes them from an `unordered_map`: `Applied`
is the result for one order. `Replacements` is what each handler puts into that map. C and
C++ use the same formats with types of their own.
**`JavaGenerator`** and **`PythonGenerator`** have the functions that differ.

**`GeneratedText`** is the other side: recursive readers of the target languages (the
grammar of statements and expressions of C, with Java's and JavaScript's forms;
Python's indentation; Rust's expressions), and `Shape`, the tree a reader should find.
The readers are written from the target languages and not from the code, so that they
can disagree with it. The operators are those of each language: only C++ and Python
have `or` and `and`, Python has no `||`, `&&` and `!`, Rust no unary `+`. In Python and
Rust the comparisons are one level and a comparison is not grouped with another (a
chain of them is a conjunction in Python and an error in Rust), and `--` is two signs.
Any word without a generator and without rules gets the default formats; the word in
the run is `C#`, and its text is read with the operators of C#. Of the text for Rust
only expressions are read: the shipped templates for its statements are modelled and
printed, but Rust's statements have no reader.

## The runs

| Run | Bounds | Shows |
| --- | --- | --- |
| `parser` | all streams of up to 3 tokens over an alphabet of 18; 4 programs that exercise every production, with each prefix of them and each deletion, replacement and insertion of one token; the same programs as the shipped lexer would type them | termination, `NullIsReported`, `AcceptedTreesAreWhole`, `RecursionNeedsTokens`, `AcceptedBracesBalance` |
| `stdin` | 3 processes, payloads of 1 or 2 parts, one a prefix of another, faults and kills, a file left by an earlier run | a process that is alone with the file reports on its own text; the file goes away |
| `semantics` | bodies of up to 3 statements out of 17, with one of 6 second functions | scopes are lexical; accepted programs are declared and return; only untyped variables crash; the flat index holds the last declaration of each name, and one the analyzer had in a scope; the summary follows the source |
| `driver` | all lines of up to 2 arguments out of 20, and up to 2 more behind 10 beginnings; manifests of up to 2 entries | see below; `Implements` and `Concludes` |
| `generator` | 265 programs: every value (two operators in both groupings, of every level and with both spellings of "or", and signs) returned by a function, every statement alone and before one of 4 others; 8 target languages: those with generators of their own, C# as one without rules, JavaScript and Rust with their shipped rules, a rule file with every irregular form, and one for C that must not be read | rules are the sections of the file; substitution; which programs the text gives back |
| `parser_silent` | streams of up to 2 tokens | a malformed function header is dropped without an error |
| `stdin_shared` | 2 processes, no faults | a process reports success for the text of another |
| `semantics_references` | bodies of up to 2 statements | undefined names are accepted |
| `semantics_conditions` | bodies of up to 2 statements | `x < 1` over ints is no condition |
| `semantics_loops` | `tests/parser_valid/loops.ipl` | a null type is dereferenced |
| `driver_output` | lines of 1 argument, or 1 behind a beginning | `--output` is written, against what `main` prints |
| `generator_mappings` | one statement per program | the type mappings of a rule file are not loaded |

The last seven are disagreements between the code and its documents or comments;
PROJECT.json quotes both sides. The parser's state depends on a window of two
tokens and its stack, so three tokens reach every branch, and the edited programs
reach the deep stacks. Three processes are the least where a file can be recreated
between two operations of one process by another and removed by a third. Two
functions are the least that can share a flag or a name. Every property has a
mutant: a copy of a definition with a plausible bug, marked `Mutant` in the
module, under which the property fails in the same run.

Properties of the `driver` run: every word given ends up in exactly one place
(`EveryWordIsPlaced`); exit code 0 means that everything asked for was done
(`SuccessIsEarned`); a failure at any phase leaves the output file as it was
(`FailuresLeaveTheOutput`) and the temporary file removed (`TemporaryIsRemoved`);
files given by options reach the compiler in every mode (`OverridesPrevail`), with
one exception: three bare words replace what `--grammar` and `--translation` gave;
and those three words mean a compile command (`LegacyFormIsCompile`).

Properties of the `generator` run. `SubstitutionIsSimultaneous`: as long as no literal
of the program holds a placeholder, the order in which a template is filled does not
matter, which the code leaves open. The other three say of each program whether its
text, read by the grammar of the target language, is the program again, as an
equivalence: `TextReadsBack` for the formats in the code (C, C++, Java, and C# by the
generic generator), `IndentationReadsBack` for Python, `BareTextReadsBack` for the
shipped templates (expressions as JavaScript and as Rust, statements as JavaScript). The
right-hand sides are the list of what the generators get wrong: an assignment brings
its own semicolon into an expression; the header of a `for` has a semicolon for each
part and one for the declaration; the type tables for returns, parameters and
variables disagree; Python moves the `else` to another column than its `if` and prints
nothing for an empty block; the templates have neither parentheses nor braces, so the
tree is lost where the precedence does not give it, and JavaScript reads two signs as
one; operators are printed as they are in IPL, whether the language has them or not. A program outside the list is read
back exactly, and a change that repairs or adds an entry makes the property fail.

The values and statements are chosen so that each condition of these lists, and each
pair of a parent and a child it speaks of, occurs with and without the others; two
statements are the least where the text of one can swallow the next one.

*Fairness.* The parser's `Terminates` and the driver's `Concludes` need weak fairness
of `Next`. Both are one thread that never waits, except for the end of standard input,
which is assumed to come: a step that can be taken is taken.

## The proofs

| Theorem | Module | For every value of the constants |
| --- | --- | --- |
| `Typing` | `ParserProofs` | `Spec => []TypeOK`: no activation reads past the stream or hands on a result of the wrong kind |
| `TreesAreWhole` | `ParserProofs` | the inductive invariant `TreeInv` |
| `NullsAreReported` | `ParserProofs` | `Spec => []NullIsReported` |
| `AcceptedTreesNeverHollow` | `ParserProofs` | `Spec => []AcceptedTreesAreWhole` |
| `RecursionIsPaidFor` | `ParserProofs` | `Spec => []RecursionNeedsTokens` |
| `BracesFollowBlocks` | `ParserBraceProofs` | the inductive invariant `BraceInv` |
| `BlocksAreClosed` | `ParserBraceProofs` | `Spec => []AcceptedBracesBalance` |
| `Typing` | `StdinProofs` | `Spec => []TypeOK` |
| `FileGoesAway` | `StdinProofs` | `Spec => []TemporaryFileIsRemoved` |
| `OwnersAreRight` | `StdinProofs` | `Spec => []OwnersReportTheirPayload` |
| `SuccessesAreEarned` | `DriverProofs` | `Spec => []SuccessIsEarned` |
| `OutputSurvivesFailures` | `DriverProofs` | `Spec => []FailuresLeaveTheOutput` |
| `TemporaryFileIsRemoved` | `DriverProofs` | `Spec => []TemporaryIsRemoved` |
| `DriverImplementsCompilation` | `DriverProofs` | `Spec => Implements`: the safety part of `Compilation`, under the mapping that the run checks |
| `RunsFollowTheirArguments` | `DriverProofs` | the inductive invariant `RunInv` |
| `Typing` | `DriverProofs` | `Spec => []TypeOK` of `Driver` |
| `WordsAreKept` | `DriverProofs` | `Spec => []EveryWordIsPlaced` |
| `OptionsPrevail` | `DriverProofs` | `Spec => []OverridesPrevail` |
| `BareWordsCompile` | `DriverProofs` | `Spec => []LegacyFormIsCompile` |
| `StructureInvariant` | `SemanticProofs` | the inductive invariant `Inv` |
| `LexicalScoping` | `SemanticProofs` | `Spec => []LookupIsLexical` |
| `Declaredness` | `SemanticProofs` | `Spec => []AcceptedProgramsAreDeclared` |
| `ReturnsAreFound` | `SemanticProofs` | `Spec => []AcceptedFunctionsReturn` |
| `AnalysisTyping` | `SemanticProofs` | `Spec => []TypeOK` of `SemanticAnalyzer` |
| `CrashesAreExplained` | `SemanticProofs` | `Spec => []OnlyUntypedVariablesCrash` |
| `IndexedAnalysis` | `SymbolIndexProofs` | `IndexSpec => Spec`: the index leaves the analyzer as it is |
| `IndexedLast` | `SymbolIndexProofs` | `IndexSpec => []LastDeclarationIsIndexed` |
| `TablesAgree` | `SymbolIndexProofs` | `IndexSpec => []IndexAgreesWithScopes` |
| `SummaryIsRight` | `SymbolIndexProofs` | `IndexSpec => []SummaryFollowsTheSource` |
| `ReadingKeepsTheSections` | `GeneratorProofs` | the inductive invariant `ReadInv` of the reading of a rule file |
| `RulesComeFromSections` | `GeneratorProofs` | `Spec => []RulesAreTheSections` |
| `GeneratorTyping` | `GeneratorProofs` | `Spec => []TypeOK` of `Generator` |
| `SubstitutionIsRight` | `GeneratorProofs` | `Spec => []SubstitutionIsSimultaneous` |

The assumptions are those on the constants; TLC evaluates them in the runs. `Numbers`
holds the two facts about sets of numbers that stand in for induction.

*The parser*, for every set of token streams: a lexer emits no token with an empty
lexeme, gives no brace the kind of a name or a literal (`TokenKind` has
`Punctuation` for it), and the inputs are sequences of tokens. `TypeOK` is inductive.
`AcceptedTreesAreWhole` is not: it speaks of finished functions only, and a hollow
node can wait in a frame for many calls before it gets into one. `TreeInv`
therefore says that, until `hadError_` is set, no frame and no result holds a hollow
node, and where the null results that are no error can be: in a return to
`parse()` from a function, or at the end of the stream to a loop over statements.
`RecursionNeedsTokens` is not inductive either, since a chain of calls that read nothing
uses up its slack: `Depth` gives every function that can start, and every frame that
can wait, its own bound over nine times the tokens consumed (0 for a block, 2 for
`parseExpression`, one more for each level below it, 10 for `parsePrimary`). A step that
reads may call anything; one that does not may only call a function with a higher bound.
`AcceptedBracesBalance` speaks of the end of the stream. `BraceInv` is what holds on the
way as long as no error is set and no name is a brace: the braces open in the tokens
consumed are the blocks being parsed (the frames that wait in `parseBlock`, and the block
that has been called behind its brace), and no prefix of those tokens closes more than it
opens. A block is left without its closing brace only with an error; `synchronize`, which
skips tokens without counting anything, runs without an error at the end of the stream
only, which `TreeInv` gives; everywhere else each token that a step passes over is known
to be no brace, by what was matched or by its kind. At the end no block is being
parsed, so the count is zero. Each proof takes one step per action; the lemmas on the control operators
(`WaitAt`, `MoveTo`, `Finish`, ...) let those steps leave the stack folded.

*Standard input*, for any set of processes, any payloads and any file an earlier
run left. `TemporaryFileIsRemoved` is inductive given `TypeOK`: only an opening
gives the path a file, and who opened it is running. `OwnersReportTheirPayload`
speaks of the end of a process and needs `OwnerInv`, which follows the owner from
place to place: the path names the file it has open, that file holds the beginning
of its payload it has written, and after it has closed the file what it has loaded
is the beginning of the payload again. A step of another process either ends the
ownership or touches nothing of this (`OthersKeepOwned`).

*The driver*, for every set of command lines, manifests and samples. `DriverInv`
says which phases are behind a run at each place (`Behind`), that the output file
changes in the last step that can fail, and when the temporary file exists; the
three theorems are its consequences. The types are not needed for it. That `Driver`
implements `Compilation` takes one step per action from the same invariant: up to the
last step that can fail the outcome is pending, that step is `Succeed` or `Fail` of the
abstract run, `Return` is its `CleanUp`, and all others stutter.

*The command line*, for lines of any length over any words (which differ from options,
commands and the default files, with the empty string among them). The three properties
look at the finished options. `RunInv` says what the loop has made of the arguments in
front of it: every option has the value of its last use so far (`ValuesAt`), the words
are in the list at the place that their number among the words gives them (`WordsAt`),
and the next argument is no value (`AtStart`). At the end of the loop this is `Given` and
`Words`, and `WordsOfCompile`, `WordsOfOthers` and `LegacyTaken` follow the words through
the code behind it. `ModeChosen` and `FilesChosen` carry the result on: an error leads to
no file, and each way to a file asks the options first. `Starts` is a recursive function;
that it exists is proved by induction, for which `LeastNumber` (every set of numbers that
is not empty has a least element) stands in, since the library's induction theorems
cannot be used.

*The semantic analyzer*, for every set of trees that are `WellFormed`, of any depth.
None of its properties is inductive: each compares the tree with what a long sequence of
calls has left behind. `Inv` ties the two together through the agenda.

- *The agenda* (`AgendaInv`). `InOrder`: a declaration comes before the next task in the
  source exactly if no task of the agenda still visits it, so "already declared" and
  "precedes" are the same. `Apart`: visits follow the source and do not overlap.
  `Nested`: the scope that a task stands in is the one that the task before it leaves
  behind. `AgendaStays` says once and for all that replacing the head keeps these, if the
  new tasks go through what is below it in order (`Replaces`); the lemmas
  `ProgramReplaces`, `IfReplaces`, `ForReplaces`, ... show that each visit function does.
- *The scopes* (`ScopesInv`). Each belongs to a node of its own, its parent to the node
  around it, and it has the first declaration of every name whose declaration in that node
  has been visited, and nothing else (`HasFirst`).
- *Where it is*. `CurrentIs`: the current scope belongs to the node that the next task
  stands in; `Leaves`: each `savedScope` that waits to be restored is the scope around its
  function. This is what `pushScope`, `popScope` and `savedScope` have to agree on.

From it, `FindIsNearest` takes `lookup` from parent to parent to the nearest scope with
the name, and `LookupResolves` gives `LookupIsLexical`. `DeclaredInv` adds that two visited
declarations of a name, or a visited assignment that resolves to nothing, have been
reported: the step that visits the second one finds the first in the current scope, or
finds the name nowhere (`LookupResolves` again). `ReturnInv` adds that while a function
that must return is to be left, `hasReturnStatement_` means a return below it: what comes
before the leaving of a function stands in it (`Inside`), and visiting the next such
function resets the flag. `TypingInv` rests on `TypesExist`, which constructs the function
that `TypeOf` recurses to, from the longest paths upwards, and on `ExpressionSound`: a
known type goes in and a known type comes out, without a null being dereferenced, unless a
variable was declared without a type. Induction over trees is done with the least or the
greatest length of a path that would be an exception (`DownTheTree`, `TypeOfSound`).

The `semantics` run checks these properties under `IndexSpec`, whose steps are those of
`Spec` and further ones that leave its variables alone: `IndexedAnalysis` carries the
theorems over.

*The index*, for the same trees. Both properties speak of the printed index. `IndexInv`
says what holds in the middle of the walk: the calls that are still to be made follow the
source and do not overlap (`Calls`, for which `OrderStays` is used a second time), and the
map has exactly the names of the functions and variables whose call has been made, each
with the last of them (`IsLatest`). `CallMade` shows that a call visits its own node and,
for a function, the parameters that are not recorded, and that everything recorded before
it precedes it in the source, so that overwriting keeps the last. `IndexedLast` and
`TablesAgree` need two more facts about what an accepted program leaves behind, in
`LeftInv`: every visited node with a scope has been given one, and a visited declaration
with an unknown type has been reported. `AcceptedLeaves` puts them together with
`ScopesInv` and `DeclaredInv`: no type was unknown, no name was declared twice in a scope,
so the scope has this very declaration, with the type that is written.

*The summary*, for the same trees. `printSemanticSummary` goes from a scope to the scopes
whose parent it is; that this is the order of the source is a fact about the analysis.
`OrderInv`: the scopes were made in the order of the source, and each comes before what is
still to be visited; a new scope keeps this because the agenda is `Apart`. `SummaryInv`:
the lines printed are those of the first *k* scopes, and the calls to be made are, in order
of creation, for exactly those of the others whose parent is among the *k* (`PrintsRest`).
So the next call is for scope *k* + 1 (`NextPrinted`), and its children may be put before
the rest: a scope made between them would stand below scope *k* + 1 and could not have an
earlier parent (`BelowComesFirst`). The indentation counts the scopes around a node
(`DepthBelow`), and the names are those of `HasFirst` when nothing is left to be visited.

*The generators*, for every set of programs and rule files, of any depth and length.
Three assumptions say what the constants are. `RuleFilesAssumption`: a file is a sequence
of lines, and a header names a type, since `parseFromFile` takes a line for one only with
brackets around something. `ProgramsAssumption`: no name and no type is a placeholder
(a brace ends a name in the lexer), and the parameters are the first children of a function
and stand nowhere else (`parseFunction`). `TemplatesAssumption`: a template holds no
placeholder but those that the handler of its node type fills (`Filled`), and a mapping
holds none; all shipped files are so. The code does not enforce it, and without it a
placeholder that is left over would be filled by the node above.

`RulesAreTheSections` speaks of the loaded rules. `ReadInv` says what holds at each line
(`ReadTo`): nothing before the first header; after it the list has the sections above the
current one, each with the last template under its header, and `currentType` and
`currentTemplate` are those of the current section so far. `LoadRules` saves that one too
and lets a later section win over an earlier one with the same type (`LoadedRules`).

`SubstitutionIsSimultaneous` is a statement about all orders in which the placeholders of
a template can be filled one after the other. `Applied` is a recursive function, as is
`FlattenSeq` of the community modules, so that it has to be shown first that they exist and
what they return (`FlatExists`, `AppliedType`). The heart is `AppliedIsFilled`: after n
turns, each piece of the template has become its value if its placeholder was among the
first n, and is itself otherwise, provided that no value holds a placeholder that is
filled; after the last turn every placeholder has been (`OrderIsComplete`), whatever the
order. That the values hold none is no property of one step: a value is what the nodes
below have printed, by a rule or by default, many steps before. `PrintInv` is therefore
about all that has been printed: every text holds only such placeholders as some literal
below its node does (`IsText`), a node is printed after those it is made of, and no
mapping that has been read is a placeholder (`MappingsInv`). One lemma for each generate
function (`ProgramPrints`, `FunctionPrints`, ...) shows that its default format keeps
this, `RulePrints` that a template does, and `ValuesStay` that what a node was printed
from stays what it is.

Only model-checked: termination and `Concludes`, which need fairness; and what the
readers of generated text find (`TextReadsBack`, `IndentationReadsBack`,
`BareTextReadsBack`), which are recursive operators, so that TLAPS cannot handle them.

## What is not modelled

- Of the generators: comments, `#include` lines and prologues, `mapKeyword`, which
  nothing calls. The C, C++, Java and Python generators are modelled from their source
  although they are not in the source list of the build and do not compile as they
  stand; what they print is what their code says.
- Of the manifest: how a line is split into key and value. Of the configuration: the
  contents of the rules, which nothing reads except to print them.
- The character lexer `src/Lexer.cpp` belongs to a constructor of `Parser` that
  nothing calls. The lexer in use makes one token of each line: the token streams
  of `Parser` are those a working lexer would make, and include these.
- `src/ir/` and `src/ipl_compiler/` are placeholders; nothing calls them.
- Diagnostics are an append-only list, which the models keep as a set of reports.
- Wording and printing; the text of `--emit-ir`; of the summary of `--emit-sema` the
  scopes and symbols are modelled, not their layout.

Noted while reading, without a run of their own: a manifest entry with an empty
value names the manifest's directory, which opens as an empty source and compiles
(`main.cpp:334`); an unknown `--standard` is only an error when no grammar is given
(`main.cpp:515`, against `docs/usage.md:87`); `isInitialized` is set on a copy of a
symbol, and nothing reads it (`SemanticAnalyzer.cpp:146`).

## The plan

1. `Parser` with its type invariant, tree invariant and termination: done, and proved
   except for termination.
2. `StdinCompile`, `SemanticAnalyzer`, `CommandLine` and `Driver` with their runs:
   done.
3. `SymbolIndex`; `Compilation` and the refinement; `RuleFile`, the generators and the
   readers of their texts: done.
4. Proofs of `StdinCompile`, of what `Driver` says about failures and of its refinement:
   done. Proofs of the braces of `Parser`, of what `CommandLine` does with words and
   options, of everything that is checked of `SemanticAnalyzer`, and of the index and
   the summary of `SymbolIndex`: done.
5. Proofs of the reading of rule files, of the types of `Generator` and of its
   substitution: done.
