SPECIFICATION Spec
CONSTANTS
  IntegerBits = 6
  RealDigits = 4
  RealMax = 240
  OctetBits = 3
  NaN = NaN
  Space = 2
  Colon = 3
  Zero = 4
  Base = 3
  WireBits = 3
  RealOctets = 3
  MaxPlain = 48
  Types <- MCTypes
  Inputs <- MCInputs
  Bodies <- MCBodies
  ContentTypes <- MCContentTypes
  MaxWork = 2
INVARIANTS
  GetPutKeepsValue
  AcceptedIsExact
PROPERTIES
  RefusedChangesNothing
  WorkIsReported
