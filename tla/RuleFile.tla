------------------------------ MODULE RuleFile ------------------------------
(***************************************************************************)
(* How createCodeGenerator in src/main.cpp gets the rules for a target     *)
(* language that has no generator of its own: RuleParser::parseFromFile    *)
(* reads rules/<language>.rules line by line, and                          *)
(* GenericCodeGenerator::loadRules enters what it returns in rules_.       *)
(*                                                                         *)
(* A line is blank (or a comment), a header, or an entry: the text before  *)
(* the first "=", if there is one, and what comes behind it.  A template   *)
(* is a sequence of pieces, mappings are a sequence of pairs.              *)
(***************************************************************************)
EXTENDS Integers, Sequences, SequencesExt

CONSTANTS Language,    \* the words that --target may be
          RuleFiles    \* the contents of rules/, a function from languages

\* A file is a sequence of lines, and a header is longer than its brackets.
ASSUME RuleFilesAssumption ==
  \A word \in DOMAIN RuleFiles :
    LET file == RuleFiles[word] IN
    /\ Len(file) \in Nat /\ file = [n \in 1 .. Len(file) |-> file[n]]
    /\ \A n \in DOMAIN file : file[n].kind = "header" => file[n].type # ""

Generators == {"C", "C++", "Java", "Python", "generic"}

\* The generator that createCodeGenerator makes for a word.
GeneratorFor(word) ==
  CASE word \in {"c", "C"}           -> "C"
    [] word \in {"cpp", "C++"}       -> "C++"
    [] word \in {"java", "Java"}     -> "Java"
    [] word \in {"python", "Python"} -> "Python"
    [] OTHER                         -> "generic"

VARIABLES
  language,          \* the target language
  reading,           \* "start", "lines", "loaded"
  lines,             \* what is left of the file
  currentType,       \* "" before the first header
  currentTemplate,
  currentMappings,
  parsed,            \* the rules that parseFromFile returns
  rules              \* rules_ of the generator

fileVars == <<language, reading, lines, currentType, currentTemplate,
              currentMappings, parsed, rules>>

-----------------------------------------------------------------------------
(* parseFromFile *)

\* parseMappings: a later pair for a key replaces an earlier one.
Mappings(pairs) ==
  [key \in {pairs[n][1] : n \in DOMAIN pairs} |->
     LET last == CHOOSE n \in DOMAIN pairs :
                   /\ pairs[n][1] = key
                   /\ \A m \in DOMAIN pairs : pairs[m][1] = key => m <= n
     IN  pairs[last][2]]

NoRules == [type \in {} |-> {}]

\* The rule of the section that has been read, if a header has been.
Saved ==
  IF currentType = "" THEN parsed
  ELSE Append(parsed, [nodeType |-> currentType, template |-> currentTemplate,
                       mappings |-> Mappings(currentMappings)])

\* Mutant: a rule file is read whenever there is one.
CreateWithRules ==
  /\ reading = "start"
  /\ IF language \in DOMAIN RuleFiles
     THEN reading' = "lines" /\ lines' = RuleFiles[language]
     ELSE reading' = "loaded" /\ lines' = <<>>
  /\ UNCHANGED <<language, currentType, currentTemplate, currentMappings, parsed,
                 rules>>

\* The four languages with a generator of their own have no rules.
CreateGenerator ==
  /\ reading = "start"
  /\ IF GeneratorFor(language) = "generic" /\ language \in DOMAIN RuleFiles
     THEN reading' = "lines" /\ lines' = RuleFiles[language]
     ELSE reading' = "loaded" /\ lines' = <<>>
  /\ UNCHANGED <<language, currentType, currentTemplate, currentMappings, parsed,
                 rules>>

Line(kind) ==
  /\ reading = "lines" /\ lines # <<>> /\ Head(lines).kind = kind
  /\ lines' = Tail(lines)

SkipLine ==
  /\ Line("blank")
  /\ UNCHANGED <<language, reading, currentType, currentTemplate, currentMappings,
                 parsed, rules>>

\* Mutant: the template of the section before is left for a section that has none.
HeaderUnreset ==
  /\ Line("header")
  /\ parsed' = Saved /\ currentType' = Head(lines).type
  /\ currentMappings' = <<>>
  /\ UNCHANGED <<language, reading, currentTemplate, rules>>

Header ==
  /\ Line("header")
  /\ parsed' = Saved
  /\ currentType' = Head(lines).type /\ currentTemplate' = <<>>
  /\ currentMappings' = <<>>
  /\ UNCHANGED <<language, reading, rules>>

\* line.substr(0, length) == word
Begins(line, length, word) ==
  SubSeq(line.key, 1, IF length < Len(line.key) THEN length ELSE Len(line.key)) = word

\* Entries without "=" and all other lines change nothing.
Entry ==
  /\ Line("entry")
  /\ LET line == Head(lines) IN
     /\ currentTemplate' = IF Begins(line, 8, "template") /\ line.hasValue
                           THEN line.value ELSE currentTemplate
     /\ currentMappings' = IF /\ ~Begins(line, 8, "template")
                              /\ Begins(line, 7, "mappings") /\ line.hasValue
                           THEN line.value ELSE currentMappings
  /\ UNCHANGED <<language, reading, currentType, parsed, rules>>

\* loadRules: a later rule for a node type replaces an earlier one.
Loaded(list) ==
  [type \in {list[n].nodeType : n \in DOMAIN list} |->
     list[CHOOSE n \in DOMAIN list :
            /\ list[n].nodeType = type
            /\ \A m \in DOMAIN list : list[m].nodeType = type => m <= n]]

\* The end of the file: the last rule is added, and the rules are loaded.
LoadRules ==
  /\ reading = "lines" /\ lines = <<>> /\ reading' = "loaded"
  /\ parsed' = Saved /\ rules' = Loaded(Saved)
  /\ UNCHANGED <<language, lines, currentType, currentTemplate, currentMappings>>

-----------------------------------------------------------------------------
FileInit ==
  /\ language \in Language /\ reading = "start" /\ lines = <<>>
  /\ currentType = "" /\ currentTemplate = <<>> /\ currentMappings = <<>>
  /\ parsed = <<>> /\ rules = NoRules

FileNext == CreateGenerator \/ SkipLine \/ Header \/ Entry \/ LoadRules

-----------------------------------------------------------------------------
(* Correctness *)

File == IF language \in DOMAIN RuleFiles THEN RuleFiles[language] ELSE <<>>

\* The lines of the last section for a node type.
LastSection(type) ==
  LET headers == {n \in DOMAIN File : File[n].kind = "header"}
      start == CHOOSE n \in headers :
                 File[n].type = type /\ \A m \in headers : File[m].type = type => m <= n
  IN  {n \in DOMAIN File : n > start /\ \A m \in headers : m <= start \/ m > n}

\* The last line of a section for a key, or nothing; a key has eight letters,
\* and what a line has between them and its "=" makes no difference.
Value(type, key) ==
  LET at == {n \in LastSection(type) : /\ File[n].kind = "entry"
                                       /\ Begins(File[n], 8, key) /\ File[n].hasValue}
  IN  IF at = {} THEN <<>>
      ELSE File[CHOOSE n \in at : \A m \in at : m <= n].value

(***************************************************************************)
(* The generator has a rule for exactly the node types that the file has a *)
(* section for, and its template is the one of the last section, that of   *)
(* the last line in the file included; sections do not leak into others.   *)
(***************************************************************************)
RulesAreTheSections ==
  reading = "loaded" /\ GeneratorFor(language) = "generic" =>
    /\ DOMAIN rules = {File[n].type : n \in {m \in DOMAIN File : File[m].kind = "header"}}
    /\ \A type \in DOMAIN rules : rules[type].template = Value(type, "template")

(***************************************************************************)
(* rules/rust.rules:2: "Format: [NodeType] template=... mappings=...": the *)
(* mappings of a section are those of its rule.                            *)
(***************************************************************************)
MappingsAreLoaded ==
  reading = "loaded" =>
    \A type \in DOMAIN rules :
      rules[type].mappings = Mappings(Value(type, "mappings"))
=============================================================================
