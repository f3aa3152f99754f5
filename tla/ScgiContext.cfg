CONSTANTS
  Streams <- ChangedStreams
  InbufSize = 30
  SizeMax = 255
  MaxReplies = 1
SPECIFICATION FairSpec
INVARIANTS FirstServedIsSent CompleteIsServed
PROPERTY RequestIsAnswered
CHECK_DEADLOCK FALSE
