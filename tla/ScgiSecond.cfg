CONSTANTS
  Streams <- TwoRequests
  InbufSize = 30
  SizeMax = 255
  MaxReplies = 2
SPECIFICATION Spec
INVARIANT OnlyCompleteRequestsAreServed
CHECK_DEADLOCK FALSE
