\* A 4xx may answer an order the broker accepted, and the lookup may fail.
SPECIFICATION Spec
CONSTANTS
  e1 = e1
  e2 = e2
  b1 = b1
  s1 = s1
  NoEngine = NoEngine
  NoOrder = NoOrder
  Engine <- MCOneEngine
  Order <- MCPairOrder
  Entry <- MCPairEntry
  SymbolOf <- MCPairSymbolOf
  MaxQty = 2
  MaxFaults = 0
  AmbiguousRejections = TRUE
INVARIANTS
  RejectedIsAbsent
