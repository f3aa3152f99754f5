SPECIFICATION Spec
CONSTANTS
  Params = {p}
  Ul = Ul
  ErrorReply = ErrorReply
  SendBuffer = 2
  MaxVersion = 1
  MaxOutput = 1
  MaxLines = 1
INVARIANTS
  EndIsReportedOnce
CHECK_DEADLOCK FALSE
