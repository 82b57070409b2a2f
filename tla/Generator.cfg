SPECIFICATION Spec
CONSTANTS
  Language <- MCLanguage
  RuleFiles <- MCRuleFiles
  Programs <- MCPrograms
  MaxStatements = 2
INVARIANTS
  TypeOK
  RulesAreTheSections
  SubstitutionIsSimultaneous
  TextReadsBack
  IndentationReadsBack
  BareTextReadsBack
