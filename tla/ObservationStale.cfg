SPECIFICATION FairSpec
CONSTANTS
  Contexts = {c1, c2}
  x = x
  y = y
  Params = {x}
  Kinds <- AllPolled
  Values = {v1, v2}
  Untellable = {}
  NoValue = NoValue
  Failing = FALSE
  MaxObservations = 2
PROPERTIES
  ValueIsShown
