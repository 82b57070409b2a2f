SPECIFICATION IndexSpec
CONSTANTS
  Name <- MCName
  Programs <- MCPrograms
  MaxStatements = 3
INVARIANTS
  TypeOK
  LookupIsLexical
  AcceptedProgramsAreDeclared
  AcceptedFunctionsReturn
  OnlyUntypedVariablesCrash
  IndexAgreesWithScopes
  LastDeclarationIsIndexed
  SummaryFollowsTheSource
