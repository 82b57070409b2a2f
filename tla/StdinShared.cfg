SPECIFICATION Spec
CONSTANTS
  a = a
  b = b
  c = c
  old = old
  Process = {a, b}
  Part <- MCPart
  Payload <- MCPayload
  Valid <- MCValid
  Leftover = old
  Faults = FALSE
INVARIANT PayloadIsCompiled
