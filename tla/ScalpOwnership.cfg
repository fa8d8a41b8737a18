\* Cycles whose answers, rechecks and syncs go well, beside an owner who trades
\* and with a crash or failed request; fair.
SPECIFICATION FairSpec
CONSTANTS
  MaxCycles = 2
  EntryQty = 2
  MinOrder = 1
  NoOne = NoOne
  Scenes <- PlainScenes
INVARIANTS
  SellsOnlyOwn
  ProtectsForeignOnly
  OwnsWhatIsLeft
PROPERTIES
  ExitsComplete
