SPECIFICATION FairSpec
CONSTANTS
  Contexts = {c1, c2}
  x = x
  y = y
  Params = {x, y}
  Kinds <- OnePolled
  Values = {v1, v2, v3}
  Untellable = {v3}
  NoValue = NoValue
  Failing = TRUE
  MaxObservations = 2
INVARIANTS
  ConnectionsMatch
  ObservedIsPolled
  SubscribersAreCurrent
  OnlySubscribersAreTold
PROPERTIES
  PolledChangeIsShown
