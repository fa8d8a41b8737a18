\* One worker that crashes or stops once and is restarted.
SPECIFICATION FairSpec
CONSTANTS
  e1 = e1
  e2 = e2
  b1 = b1
  s1 = s1
  NoEngine = NoEngine
  NoOrder = NoOrder
  Engine <- MCOneEngine
  Order <- MCPairOrder
  Entry <- MCPairEntry
  SymbolOf <- MCPairSymbolOf
  MaxQty = 1
  MaxFaults = 1
  AmbiguousRejections = FALSE
PROPERTIES
  AcceptedOrdersResolve
