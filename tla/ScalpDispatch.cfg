\* One symbol, one entry and one exit, two workers that hand the lease over.
SPECIFICATION Spec
CONSTANTS
  e1 = e1
  e2 = e2
  b1 = b1
  s1 = s1
  NoEngine = NoEngine
  NoOrder = NoOrder
  Engine <- MCEngine
  Order <- MCPairOrder
  Entry <- MCPairEntry
  SymbolOf <- MCPairSymbolOf
  MaxQty = 2
  MaxFaults = 2
  AmbiguousRejections = FALSE
SYMMETRY EngineSymmetry
INVARIANTS
  DispatchInv
  SubmittedOnce
  UnsentNeverReachedBroker
  FinalMeansFinal
  OneOrderAtBroker
  NoOversell
PROPERTIES
  OutcomesStand
