SPECIFICATION FairSpec
CONSTANTS
  Keys = {k1, k2, k3}
  Values = {v1, v2}
  End = End
  Nothing = Nothing
  OutOfRange = OutOfRange
INVARIANTS
  TypeOK
  IteratorsAgree
  EveryUpdateIsLinked
PROPERTIES
  ImplementsQueue
  NoStarvation
