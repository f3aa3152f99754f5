SPECIFICATION FairSpec
CONSTANTS
  MaxLexemes = 3
  MaxItems = 5
  IntMax = 99
  IntegerMax = 127
  RealOrder = 6
  Texts <- MCTexts
  Samples <- MCSamples
INVARIANTS
  StackIsTyped
  ScannerFollowsRules
  ExpressionsAreAccepted
  EncodedIsReadBack
PROPERTIES
  ParsingEnds
CHECK_DEADLOCK FALSE
