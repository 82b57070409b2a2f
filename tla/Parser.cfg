SPECIFICATION FairSpec
CONSTANTS
  Lexemes <- MCLexemes
  Inputs <- MCInputs
  MaxShort = 3
  MaxEdited = 4
INVARIANTS
  TypeOK
  NullIsReported
  AcceptedTreesAreWhole
  RecursionNeedsTokens
  AcceptedBracesBalance
PROPERTY Terminates
