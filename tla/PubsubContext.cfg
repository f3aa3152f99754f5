SPECIFICATION FairSpec
CONSTANTS
  Params = {p, q}
  Ul = Ul
  ErrorReply = ErrorReply
  SendBuffer = 2
  MaxVersion = 1
  MaxOutput = 2
  MaxLines = 1
INVARIANTS
  TypeOK
  WriteIsExclusive
  NoIdleBacklog
  BacklogIsBounded
  NoUpdateIsLost
  NoEndIsMissed
PROPERTIES
  DeliveredInOrder
  ChangesAreDelivered
CHECK_DEADLOCK FALSE
