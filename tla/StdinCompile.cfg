SPECIFICATION Spec
CONSTANTS
  a = a
  b = b
  c = c
  old = old
  Process = {a, b, c}
  Part <- MCPart
  Payload <- MCPayload
  Valid <- MCValid
  Leftover = old
  Faults = TRUE
INVARIANTS
  TypeOK
  OwnersReportTheirPayload
  TemporaryFileIsRemoved
