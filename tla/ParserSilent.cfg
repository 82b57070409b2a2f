SPECIFICATION Spec
CONSTANTS
  Lexemes <- MCLexemes
  Inputs <- MCInputs
  MaxShort = 2
  MaxEdited = 0
INVARIANT AcceptedFunctionsAreKept
