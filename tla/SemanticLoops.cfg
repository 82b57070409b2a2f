SPECIFICATION IndexSpec
CONSTANTS
  Name <- LoopsName
  Programs <- LoopsProgram
  MaxStatements = 1
INVARIANT AnalysisIsDefined
