SPECIFICATION IndexSpec
CONSTANTS
  Name <- MCName
  Programs <- MCPrograms
  MaxStatements = 2
INVARIANT ComparisonsAreConditions
