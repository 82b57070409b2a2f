SPECIFICATION Spec
CONSTANTS
  Language <- MCLanguage
  RuleFiles <- MCRuleFiles
  Programs <- MCPrograms
  MaxStatements = 0
INVARIANT MappingsAreLoaded
